---- MODULE Spec2Model ----
(***************************************************************************)
(* Model of the thread-per-cell matrix multiplication of                   *)
(* src/src/MatrixMultiplication.c: the dispatcher                          *)
(* exampleMatrixMultiplication and its workers matrixMultThreadRoutine.    *)
(***************************************************************************)
EXTENDS Integers, Sequences, FiniteSets, TLC

\* ------------------------------------------------------------------ bounds
\* Largest number of workers (cells of C) of an explored multiplication.
MaxThreads == 4
\* Largest inner dimension (columns of A, rows of B) explored.
MaxInner == 2
\* Width in bits of "unsigned int" in the model; arithmetic on the loop
\* counters is modular, as on the build (where the width is 32).
UINT_BITS == 3
\* Width in bits of "int" where populateRandomValuesMatrix is exercised on
\* its own (32 on the build); signed arithmetic overflows outside
\* INT_MIN .. INT_MAX.
INT_BITS == 3
\* Width in bits of "unsigned int" where the dimensions are drawn and
\* threads_num is computed on their own (32 on the build): wide enough for
\* MAX_MAT_DIM * MAX_MAT_DIM, as the build's is.
DIMS_UINT_BITS == 8
\* Largest number of rows and of columns of the matrix populated there.
MaxPopDim == 2
\* ThreadsWithMutex.c: threads started (NUMBER_OF_THREADS, 7 in the source)
\* and increments per thread (NUMBER_OF_INCREMENTS, 1000000 in the source)
MutexThreads == 2
NUMBER_OF_INCREMENTS == 2

\* ------------------------------------------------------- program constants
MIN_MAT_DIM == 1
MAX_MAT_DIM == 5
MIN_MAT_VAL == 0
MAX_MAT_VAL == 10

\* errno values a pthread_attr setter or pthread_create can report.
EINVAL == 22
EAGAIN == 11
EBUSY == 16
ETIMEDOUT == 110

\* scheduling policies and inheritance modes of <sched.h> / <pthread.h>
SCHED_OTHER == "SCHED_OTHER"
SCHED_RR == "SCHED_RR"
PTHREAD_INHERIT_SCHED == "PTHREAD_INHERIT_SCHED"
PTHREAD_EXPLICIT_SCHED == "PTHREAD_EXPLICIT_SCHED"

\* ThreadsWithAttributes.c
NUMBER_OF_THREADS == 10
SIZE_OF_1_KB == 1024
SIZE_OF_4_KB == SIZE_OF_1_KB * 4
SIZE_OF_1_MB_IN_BYTES == SIZE_OF_1_KB * SIZE_OF_1_KB
PTHREAD_CREATE_JOINABLE == "PTHREAD_CREATE_JOINABLE"
\* ThreadsWithBarrier.c (NUMBER_OF_THREADS and the three count limits)
BarrierThreads == 3
NUMBER_OF_INCREMENTS_0 == 10 ^ 4
NUMBER_OF_INCREMENTS_1 == 10 ^ 6
NUMBER_OF_INCREMENTS_2 == 10 ^ 8

\* ThreadsWithConditionVariables.c
BUFFER_SIZE == 3
\* part_000 (the semaphore lesson)
MAX_COUNTING_SEM_SLOTS == 3
MAX_NUM_OF_THREADS == 5

\* stands for the implementation-defined stack and guard size pthread_attr_init sets
DefaultSize == 0
\* sched_get_priority_max(SCHED_RR) on Linux
PRIO_MAX_RR == 99

UINT_MOD == 2 ^ UINT_BITS

\* int: range, and the value two's complement wrap-around leaves
INT_MIN == 0 - (2 ^ (INT_BITS - 1))
INT_MAX == (2 ^ (INT_BITS - 1)) - 1
IntRange == INT_MIN .. INT_MAX
SWrap(x) == ((x - INT_MIN) % (2 ^ INT_BITS)) + INT_MIN
\* rand() returns a value of 0 .. RAND_MAX, and RAND_MAX is INT_MAX
RAND_MAX == INT_MAX

\* unsigned int arithmetic
USub(a, b) == (a - b) % UINT_MOD
UAdd(a, b) == (a + b) % UINT_MOD
UMul(a, b) == (a * b) % UINT_MOD

VARIABLES
    main_pc,              \* position of exampleMatrixMultiplication
    mat_A_rows, mat_A_cols, mat_B_cols,
    vals_A, vals_B,       \* values the generator delivers for A and B
    mat_A, mat_B, mat_C,  \* the matrices (NULL until allocated)
    threads_num,
    threads,              \* pthread_t array: index -> handle, or NULL
    attr,                 \* pthread_attr_t
    set_attr_status,
    matrix_mult_data_arr, \* work items: index -> [target_row_A, target_col_B]
    mat_C_lock,           \* [state, owner]
    thread_idx, cancel_idx,
    pc,                   \* position of each worker
    calculated_value,     \* local of each worker
    cancel_pending,       \* workers with a cancellation request pending
    spawn_attr,           \* attributes each worker was created with
    mutex_calls,          \* per worker: completed lock and unlock calls
    create_log,           \* results of the pthread_create calls so far
    writers,              \* cell of C -> workers that assigned it
    C_readers,            \* who has read a cell of C
    \* allocateMatrix followed by deallocateMatrix, on its own
    dm_pc,                \* position in allocateMatrix / deallocateMatrix
    dm_rows,              \* the rows argument
    dm_row_idx,
    dm_mat,               \* the row table: row index -> state of mat[row_idx]
    dm_table,             \* state of the block of the row table itself
    dm_ret,               \* what allocateMatrix returned
    dm_arg,               \* the mat argument of deallocateMatrix
    dm_faults,            \* invalid memory operations performed so far
    \* populateRandomValuesMatrix, on its own
    pop_pc,
    pop_min, pop_max,     \* the min_val and max_val arguments
    pop_rows, pop_cols,   \* the mat_rows and mat_cols arguments
    pop_mat,              \* the matrix being filled
    pop_row_idx, pop_col_idx,
    pop_faults,           \* undefined operations evaluated so far
    \* threadsWithAttributes (ThreadsWithAttributes.c)
    twa_pc,               \* position of threadsWithAttributes
    attr_idx, twa_thread_idx, twa_cancel_idx,
    thread_attrs,         \* index -> pthread_attr_t
    sched_priority_param, \* index -> sched_priority
    twa_threads,          \* index -> handle (Indeterminate until created)
    twa_state,            \* index -> state of the thread created for it
    twa_spawn_attr,       \* index -> attributes its thread was created with
    twa_create_log,       \* results of the pthread_create calls so far
    twa_cancel_log,       \* handles pthread_cancel was called on, in order
    \* createThreadsAndRun (ThreadsWithMutex.c)
    mx_pc,                \* position of createThreadsAndRun
    use_mutex,
    counter,
    mx_lock,              \* the static mutex: [state, owner]
    mx_i,                 \* loop index of createThreadsAndRun
    mx_tpc,               \* position of each thread in incrementFunction
    mx_reg,               \* per thread: the copy of *p_cnt it fetched
    mx_k,                 \* per thread: loop index i of incrementFunction
    mx_printed,           \* the counter value printed at line 109
    mx_ret,               \* return value of createThreadsAndRun
    \* threadsWithBarrier (ThreadsWithBarrier.c)
    bar_pc,               \* position of threadsWithBarrier
    bar_i,                \* its loop index
    barrier,              \* [state, count, waiting, released]
    cab,                  \* argument records: index -> cnt
    bar_tpc,              \* position of each thread in countUntilLimit
    dummy_cnt,            \* per thread
    \* threadsWithConditionVariables (ThreadsWithConditionVariables.c)
    cv_pc,                \* position of threadsWithConditionVariables
    mutex_lock,           \* [state, owner]
    full_cond,            \* [state, waiters]
    cons_pc, prod_pc,     \* positions of consumerRoutine and producerRoutine
    cons_i, prod_i,       \* their loop indices
    cv_cancel,            \* a cancellation request for the consumer is pending
    lost_signals,         \* pthread_cond_signal calls that found no waiter
    \* functionUsingThreadWithTimedMutex (ThreadCreationStatus.c)
    tm_pc,                \* position of functionUsingThreadWithTimedMutex
    tm_mutex,             \* mutex_1, mutex_2: [state, owner]
    tm_tpc,               \* position of thread A and of thread B
    tm_ret,               \* per thread: results of its two lockTimedMutex calls
    \* testCountingSemaphores (part_000)
    sem_pc,               \* position of testCountingSemaphores
    sem_i, sem_j,         \* its loop indices i and j
    counting_sem,         \* [state, value]
    sem_tpc,              \* position of each thread in countingSemaphoreRoutine
    sem_cancel,           \* threads with a pending cancellation request
    \* threadsWithTryLock (ThreadsWithTryLock.c)
    tl_pc,                \* position of threadsWithTryLock
    tl_mutex,             \* [state, owner]
    tl_tpc,               \* position of t_0 and of t_1
    tl_ret                \* per thread: result of pthread_mutex_trylock

inputs == <<mat_A_rows, mat_A_cols, mat_B_cols, vals_A, vals_B>>
mats == <<mat_A, mat_B, mat_C, writers, C_readers>>
setup == <<threads_num, attr, set_attr_status, mat_C_lock>>
loopv == <<threads, matrix_mult_data_arr, thread_idx, cancel_idx, create_log>>
workers == <<pc, calculated_value, cancel_pending, spawn_attr, mutex_calls>>
engine == <<main_pc, inputs, mats, setup, loopv, workers>>
dm_vars == <<dm_pc, dm_rows, dm_row_idx, dm_mat, dm_table, dm_ret, dm_arg, dm_faults>>
\* what the steps of the matrix engine never touch
pop_vars == <<pop_pc, pop_min, pop_max, pop_rows, pop_cols, pop_mat,
              pop_row_idx, pop_col_idx, pop_faults>>
twa_vars == <<twa_pc, attr_idx, twa_thread_idx, twa_cancel_idx, thread_attrs,
              sched_priority_param, twa_threads, twa_state, twa_spawn_attr,
              twa_create_log, twa_cancel_log>>
mx_vars == <<mx_pc, use_mutex, counter, mx_lock, mx_i, mx_tpc, mx_reg, mx_k,
             mx_printed, mx_ret>>
\* the lessons on one synchronisation primitive each
bar_vars == <<bar_pc, bar_i, barrier, cab, bar_tpc, dummy_cnt>>
cv_vars == <<cv_pc, mutex_lock, full_cond, cons_pc, prod_pc, cons_i, prod_i, cv_cancel,
             lost_signals>>
tm_vars == <<tm_pc, tm_mutex, tm_tpc, tm_ret>>
sem_vars == <<sem_pc, sem_i, sem_j, counting_sem, sem_tpc, sem_cancel>>
tl_vars == <<tl_pc, tl_mutex, tl_tpc, tl_ret>>
locks == <<tm_vars, sem_vars, tl_vars>>
demos == <<mx_vars, bar_vars, cv_vars, locks>>
aside == <<dm_vars, pop_vars, twa_vars, demos>>
\* what the steps of one function exercised on its own never touch
dm_others == <<engine, pop_vars, twa_vars, demos>>
pop_others == <<engine, dm_vars, twa_vars, demos>>
twa_others == <<engine, dm_vars, pop_vars, demos>>
matrix_side == <<engine, dm_vars, pop_vars, twa_vars>>
mx_others == <<matrix_side, bar_vars, cv_vars, locks>>
bar_others == <<matrix_side, mx_vars, cv_vars, locks>>
cv_others == <<matrix_side, mx_vars, bar_vars, locks>>
counting == <<matrix_side, mx_vars, bar_vars, cv_vars>>
tm_others == <<counting, sem_vars, tl_vars>>
sem_others == <<counting, tm_vars, tl_vars>>
tl_others == <<counting, tm_vars, sem_vars>>
vars == <<engine, aside>>

NULL == [x \in {} |-> 0]
NoThread == 0 - 1
\* malloc'ed storage is not initialised: a cell of C before its assignment
Indeterminate == 0 - 1
Uninit == "uninit"

mat_B_rows == mat_A_cols
mat_C_rows == mat_A_rows
mat_C_cols == mat_B_cols

Workers == 0 .. (MaxThreads - 1)

\* ------------------------------------------------------------ pure helpers
\* variant of getDelimitedRandomInteger that forgets to add min_val
getDelimitedRandomInteger_noMin(r, min_val, max_val) ==
    r % (max_val - min_val + 1)

\* rand() % (max_val - min_val + 1) + min_val, for a value r returned by rand()
getDelimitedRandomInteger(r, min_val, max_val) ==
    (r % (max_val - min_val + 1)) + min_val

\* rand(): the n-th value of the pseudorandom stream started by srand(seed),
\* a linear congruential generator
RECURSIVE rand(_, _)
rand(seed, n) ==
    IF n = 0 THEN seed ELSE ((rand(seed, n - 1) * 75) + 74) % 65537

\* seeds (values of time(NULL) given to srand) of the explored runs
Seeds == {1, 2}

\* the values getDelimitedRandomInteger can deliver as a dimension
DimRange ==
    {getDelimitedRandomInteger(r, MIN_MAT_DIM, MAX_MAT_DIM) :
        r \in 0 .. (MAX_MAT_DIM - MIN_MAT_DIM)}

\* populateRandomValuesMatrix: cells filled row by row from the stream, the
\* first cell taking draw number first
populateRandomValuesMatrix(seed, first, mat_rows, mat_cols, min_val, max_val) ==
    [row_idx \in 0 .. (mat_rows - 1) |->
        [col_idx \in 0 .. (mat_cols - 1) |->
            getDelimitedRandomInteger(
                rand(seed, first + (row_idx * mat_cols) + col_idx),
                min_val, max_val)]]

\* allocateMatrix: storage obtained, cells not initialised
allocateMatrix(rows, cols) ==
    [r \in 0 .. (rows - 1) |-> [c \in 0 .. (cols - 1) |-> Indeterminate]]

\* variant of multiplyLoop whose loop stops one index short
RECURSIVE multiplyLoop_short(_, _, _, _, _, _, _)
multiplyLoop_short(A, B, A_cols, row_A, col_B, i, ret) ==
    IF i + 1 < A_cols
    THEN multiplyLoop_short(A, B, A_cols, row_A, col_B, i + 1,
                            ret + (A[row_A][i] * B[i][col_B]))
    ELSE ret

\* the for loop of multiplyRowByColumn, from index i with accumulator ret
RECURSIVE multiplyLoop(_, _, _, _, _, _, _)
multiplyLoop(A, B, A_cols, row_A, col_B, i, ret) ==
    IF i < A_cols
    THEN multiplyLoop(A, B, A_cols, row_A, col_B, i + 1,
                      ret + (A[row_A][i] * B[i][col_B]))
    ELSE ret

\* variant of multiplyRowByColumn whose loop starts at index 1
multiplyRowByColumn_from1(A, B, A_cols, row_A, col_B) ==
    multiplyLoop(A, B, A_cols, row_A, col_B, 1, 0)

multiplyRowByColumn(A, B, A_cols, row_A, col_B) ==
    multiplyLoop(A, B, A_cols, row_A, col_B, 0, 0)

\* the work item of the dispatch loop for thread_idx
\* variant of targetRow that takes the remainder instead of the quotient
targetRow_rem(idx, cols) == idx % cols
\* variant of targetRow that leaves every work item at row 0
targetRow_zero(idx, cols) == 0
\* variant of targetCol that leaves every work item at column 0
targetCol_zero(idx, cols) == 0

targetRow(idx, cols) == idx \div cols
targetCol(idx, cols) == idx % cols

\* pthread_attr_t before pthread_attr_init, and as pthread_attr_init leaves it
attrUninit ==
    [init |-> FALSE, policy |-> Uninit, priority |-> Indeterminate, inherit |-> Uninit]
pthread_attr_init ==
    [init |-> TRUE, policy |-> SCHED_OTHER, priority |-> 0, inherit |-> PTHREAD_INHERIT_SCHED]

\* results an attribute setter can report: success or a (positive) errno
SetterResults == {0, EINVAL}

\* setAttr: r1, r2, r3 are what the OS answers to the three setters
setAttr(p_attr, scheduling_policy, scheduling_priority, inheritance, r1, r2, r3) ==
    IF r1 # 0 THEN [attr |-> p_attr, err |-> r1]
    ELSE LET a1 == [p_attr EXCEPT !.policy = scheduling_policy] IN
         IF r2 # 0 THEN [attr |-> a1, err |-> r2]
         ELSE LET a2 == [a1 EXCEPT !.priority = scheduling_priority] IN
              IF r3 # 0 THEN [attr |-> a2, err |-> r3]
              ELSE [attr |-> [a2 EXCEPT !.inherit = inheritance], err |-> 0]

\* checkThreadCreationStatus
checkThreadCreationStatus(thread_creation_status) ==
    IF thread_creation_status # 0 THEN 0 - 1 ELSE 0

\* ------------------------------------------------------------------- Init
InputOK(rows, inner, cols) ==
    /\ rows \in DimRange /\ inner \in DimRange /\ cols \in DimRange
    /\ rows * cols <= MaxThreads
    /\ inner <= MaxInner

\* allocateMatrix / deallocateMatrix not being exercised on their own
DmIdle ==
    /\ dm_pc = "idle"
    /\ dm_rows = 0 /\ dm_row_idx = 0
    /\ dm_mat = NULL
    /\ dm_table = "none" /\ dm_ret = "none" /\ dm_arg = "none"
    /\ dm_faults = {}

\* populateRandomValuesMatrix not being exercised on its own
PopIdle ==
    /\ pop_pc = "idle"
    /\ pop_min = 0 /\ pop_max = 0
    /\ pop_rows = 0 /\ pop_cols = 0
    /\ pop_mat = NULL
    /\ pop_row_idx = 0 /\ pop_col_idx = 0
    /\ pop_faults = {}

\* pthread_attr_t of threadsWithAttributes: before pthread_attr_init, and as
\* pthread_attr_init leaves it
exampleAttrUninit ==
    [init |-> FALSE, detachstate |-> Uninit, stacksize |-> Indeterminate,
     guardsize |-> Indeterminate, policy |-> Uninit, priority |-> Indeterminate,
     inherit |-> Uninit]
exampleAttrInit ==
    [init |-> TRUE, detachstate |-> PTHREAD_CREATE_JOINABLE,
     stacksize |-> DefaultSize, guardsize |-> DefaultSize, policy |-> SCHED_OTHER,
     priority |-> 0, inherit |-> PTHREAD_INHERIT_SCHED]

ThreadIdx == 0 .. (NUMBER_OF_THREADS - 1)

\* the locals of threadsWithAttributes before its first statement
TwaLocals ==
    /\ attr_idx = 0 /\ twa_thread_idx = 0 /\ twa_cancel_idx = 0
    /\ thread_attrs = [i \in ThreadIdx |-> exampleAttrUninit]
    /\ sched_priority_param = [i \in ThreadIdx |-> Indeterminate]
    /\ twa_threads = [i \in ThreadIdx |-> Indeterminate]
    /\ twa_state = [i \in ThreadIdx |-> "unspawned"]
    /\ twa_spawn_attr = [i \in ThreadIdx |-> exampleAttrUninit]
    /\ twa_create_log = <<>>
    /\ twa_cancel_log = <<>>

\* threadsWithAttributes not running
TwaIdle == twa_pc = "idle" /\ TwaLocals

MxThreads == 0 .. (MutexThreads - 1)

\* the statics and locals of ThreadsWithMutex.c before createThreadsAndRun
MxLocals ==
    /\ counter = 0
    /\ mx_lock = [state |-> "uninit", owner |-> NoThread]
    /\ mx_i = 0
    /\ mx_tpc = [t \in MxThreads |-> "unspawned"]
    /\ mx_reg = [t \in MxThreads |-> 0]
    /\ mx_k = [t \in MxThreads |-> 0]
    /\ mx_printed = Indeterminate
    /\ mx_ret = Indeterminate

\* createThreadsAndRun not running
MxIdle == mx_pc = "idle" /\ use_mutex = 0 /\ MxLocals

BarThreads == 0 .. (BarrierThreads - 1)

\* lines 93-106: the locals of threadsWithBarrier
BarLocals ==
    /\ bar_i = 0
    /\ barrier = [state |-> "uninit", count |-> 0, waiting |-> {}, released |-> {}]
    /\ cab = [t \in BarThreads |-> Indeterminate]
    /\ bar_tpc = [t \in BarThreads |-> "unspawned"]
    /\ dummy_cnt = [t \in BarThreads |-> 0]

\* threadsWithBarrier not running
BarIdle == bar_pc = "idle" /\ BarLocals

\* names of the two threads of the condition variable lesson
Consumer == "consumer"
Producer == "producer"
Nobody == "nobody"

\* lines 162-165: the locals of threadsWithConditionVariables
CvLocals ==
    /\ mutex_lock = [state |-> "uninit", owner |-> Nobody]
    /\ full_cond = [state |-> "uninit", waiters |-> {}]
    /\ cons_pc = "unspawned" /\ prod_pc = "unspawned"
    /\ cons_i = 0 /\ prod_i = 0
    /\ cv_cancel = FALSE
    /\ lost_signals = 0

\* threadsWithConditionVariables not running
CvIdle == cv_pc = "idle" /\ CvLocals

\* thread A, thread B and the two mutexes of the timed mutex lesson
TmThreads == {"A", "B"}
TmMutexes == {1, 2}

\* lines 323-328: the locals of functionUsingThreadWithTimedMutex
TmLocals ==
    /\ tm_mutex = [m \in TmMutexes |-> [state |-> "uninit", owner |-> Nobody]]
    /\ tm_tpc = [t \in TmThreads |-> "unspawned"]
    /\ tm_ret = [t \in TmThreads |-> <<Indeterminate, Indeterminate>>]

\* functionUsingThreadWithTimedMutex not running
TmIdle == tm_pc = "idle" /\ TmLocals

SemThreads == 0 .. (MAX_NUM_OF_THREADS - 1)

\* lines 189-203: the locals of testCountingSemaphores
SemLocals ==
    /\ sem_i = 0 /\ sem_j = 0
    /\ counting_sem = [state |-> "uninit", value |-> 0]
    /\ sem_tpc = [t \in SemThreads |-> "unspawned"]
    /\ sem_cancel = {}

\* testCountingSemaphores not running
SemIdle == sem_pc = "idle" /\ SemLocals

TlThreads == {0, 1}

\* lines 91-94: the locals of threadsWithTryLock
TlLocals ==
    /\ tl_mutex = [state |-> "uninit", owner |-> NoThread]
    /\ tl_tpc = [t \in TlThreads |-> "unspawned"]
    /\ tl_ret = [t \in TlThreads |-> Indeterminate]

\* threadsWithTryLock not running
TlIdle == tl_pc = "idle" /\ TlLocals

LocksIdle == TmIdle /\ SemIdle /\ TlIdle

DemosIdle == MxIdle /\ BarIdle /\ CvIdle /\ LocksIdle

AsideIdle == DmIdle /\ PopIdle /\ TwaIdle /\ DemosIdle

\* the locals of exampleMatrixMultiplication before its first statement
EngineRest ==
    /\ mat_A = NULL /\ mat_B = NULL /\ mat_C = NULL
    /\ threads_num = 0
    /\ threads = NULL
    /\ attr = attrUninit
    /\ set_attr_status = 0
    /\ matrix_mult_data_arr = NULL
    /\ mat_C_lock = [state |-> "uninit", owner |-> NoThread]
    /\ thread_idx = 0 /\ cancel_idx = 0
    /\ pc = [w \in Workers |-> "unspawned"]
    /\ calculated_value = [w \in Workers |-> Indeterminate]
    /\ cancel_pending = {}
    /\ create_log = <<>>
    /\ spawn_attr = [w \in Workers |-> attrUninit]
    /\ mutex_calls = [w \in Workers |-> [lock |-> 0, unlock |-> 0]]
    /\ writers = [cell \in {} |-> {}]
    /\ C_readers = {}

InitRest ==
    /\ main_pc = "create_matrices"
    /\ EngineRest
    /\ AsideIdle

\* exampleMatrixMultiplication not running
EngineIdle ==
    /\ main_pc = "idle"
    /\ mat_A_rows = 0 /\ mat_A_cols = 0 /\ mat_B_cols = 0
    /\ vals_A = NULL /\ vals_B = NULL
    /\ EngineRest

Init ==
    /\ \E rows \in DimRange, inner \in DimRange, cols \in DimRange, seed \in Seeds :
          /\ InputOK(rows, inner, cols)
          /\ mat_A_rows = rows /\ mat_A_cols = inner /\ mat_B_cols = cols
          /\ vals_A = populateRandomValuesMatrix(seed, 4, rows, inner,
                                                 MIN_MAT_VAL, MAX_MAT_VAL)
          /\ vals_B = populateRandomValuesMatrix(seed, 4 + (rows * inner), inner, cols,
                                                 MIN_MAT_VAL, MAX_MAT_VAL)
    /\ InitRest

\* a matrix written as a tuple of rows, as the int** the code indexes from 0
Matrix(rows) ==
    [r \in 0 .. (Len(rows) - 1) |->
        [c \in 0 .. (Len(rows[1]) - 1) |-> rows[r + 1][c + 1]]]

\* two inputs the random generation can produce (dimensions within
\* MIN_MAT_DIM..MAX_MAT_DIM, values within MIN_MAT_VAL..MAX_MAT_VAL)
Square_A == Matrix(<< <<1, 2>>, <<3, 4>> >>)
Square_B == Matrix(<< <<5, 6>>, <<7, 8>> >>)
RowVec_A == Matrix(<< <<2, 0, 1>> >>)
ColVec_B == Matrix(<< <<1>>, <<4>>, <<2>> >>)

\* the call starts with one of these two inputs
InitLiteral ==
    /\ \/ /\ mat_A_rows = 2 /\ mat_A_cols = 2 /\ mat_B_cols = 2
          /\ vals_A = Square_A /\ vals_B = Square_B
       \/ /\ mat_A_rows = 1 /\ mat_A_cols = 3 /\ mat_B_cols = 1
          /\ vals_A = RowVec_A /\ vals_B = ColVec_B
    /\ InitRest

\* ------------------------------------------------ exampleMatrixMultiplication
CellsOfC == (0 .. (mat_C_rows - 1)) \X (0 .. (mat_C_cols - 1))

\* lines 272-282: create A and B, allocate C, give up when one is NULL
CreateMatrices ==
    /\ main_pc = "create_matrices"
    /\ \E okA \in BOOLEAN, okB \in BOOLEAN, okC \in BOOLEAN :
          /\ mat_A' = IF okA THEN vals_A ELSE NULL
          /\ mat_B' = IF okB THEN vals_B ELSE NULL
          /\ mat_C' = IF okC THEN allocateMatrix(mat_C_rows, mat_C_cols) ELSE NULL
          /\ main_pc' = IF okA /\ okB /\ okC THEN "set_attr" ELSE "returned"
    /\ writers' = [cell \in CellsOfC |-> {}]
    /\ UNCHANGED <<aside, inputs, C_readers, setup, loopv, workers>>

\* lines 285-306: thread handle array, then setAttr on attr and its check
SetAttrStep ==
    /\ main_pc = "set_attr"
    /\ threads_num' = UMul(mat_C_rows, mat_C_cols)
    /\ \E ok \in BOOLEAN :
          threads' = IF ok THEN [i \in 0 .. (threads_num' - 1) |-> Indeterminate]
                     ELSE NULL
    /\ \E r1 \in SetterResults, r2 \in SetterResults, r3 \in SetterResults :
          LET res == setAttr(attr, SCHED_RR, PRIO_MAX_RR, PTHREAD_EXPLICIT_SCHED,
                             r1, r2, r3)
          IN /\ attr' = res.attr
             /\ set_attr_status' = res.err
    /\ main_pc' = IF set_attr_status' < 0 THEN "returned" ELSE "alloc_data"
    /\ UNCHANGED <<aside, inputs, mats, mat_C_lock, matrix_mult_data_arr, thread_idx,
                   cancel_idx, create_log, workers>>

\* variant of AllocData that frees what was acquired before its failure return
AllocData_release ==
    /\ main_pc = "alloc_data"
    /\ \E ok \in BOOLEAN :
          IF ok
          THEN /\ matrix_mult_data_arr' =
                    [i \in 0 .. (threads_num - 1) |->
                        [target_row_A |-> Indeterminate, target_col_B |-> Indeterminate]]
               /\ mat_C_lock' = [state |-> "init", owner |-> NoThread]
               /\ attr' = pthread_attr_init
               /\ thread_idx' = 0
               /\ main_pc' = "dispatch"
               /\ UNCHANGED <<mats, threads>>
          ELSE /\ main_pc' = "returned"
               /\ mat_A' = NULL /\ mat_B' = NULL /\ mat_C' = NULL
               /\ threads' = NULL
               /\ UNCHANGED <<matrix_mult_data_arr, mat_C_lock, attr, thread_idx,
                              writers, C_readers>>
    /\ UNCHANGED <<aside, inputs, threads_num, set_attr_status, cancel_idx,
                   create_log, workers>>

\* lines 309-331: work item array, common data, mutex init, attr init
AllocData ==
    /\ main_pc = "alloc_data"
    /\ \E ok \in BOOLEAN :
          IF ok
          THEN /\ matrix_mult_data_arr' =
                    [i \in 0 .. (threads_num - 1) |->
                        [target_row_A |-> Indeterminate, target_col_B |-> Indeterminate]]
               /\ mat_C_lock' = [state |-> "init", owner |-> NoThread]
               /\ attr' = pthread_attr_init
               /\ thread_idx' = 0
               /\ main_pc' = "dispatch"
          ELSE /\ main_pc' = "returned"
               /\ UNCHANGED <<matrix_mult_data_arr, mat_C_lock, attr, thread_idx>>
    /\ UNCHANGED <<aside, inputs, mats, threads_num, set_attr_status, threads, cancel_idx,
                   create_log, workers>>

\* results pthread_create can report
CreateResults == {0, EAGAIN}

\* variant of CreateFailed that skips the failed index and goes on dispatching
CreateFailed_skip ==
    /\ thread_idx' = UAdd(thread_idx, 1)
    /\ UNCHANGED <<main_pc, cancel_idx, threads, workers>>

\* lines 341-353: pthread_create failed for thread_idx: enter the
\* cancellation loop, which starts at thread_idx - 1
CreateFailed ==
    /\ cancel_idx' = USub(thread_idx, 1)
    /\ main_pc' = "rollback"
    /\ UNCHANGED <<threads, thread_idx, workers>>

\* line 340: pthread_create succeeded: the handle is stored in
\* threads[thread_idx] and the worker starts with the attributes of attr
CreateSucceeded ==
    /\ threads' = [threads EXCEPT ![thread_idx] = thread_idx]
    /\ pc' = [pc EXCEPT ![thread_idx] = "setcancel"]
    /\ spawn_attr' = [spawn_attr EXCEPT ![thread_idx] = attr]
    /\ thread_idx' = UAdd(thread_idx, 1)
    /\ UNCHANGED <<main_pc, cancel_idx, calculated_value, cancel_pending,
                   mutex_calls>>

\* lines 334-354: one iteration of the dispatch loop
Dispatch ==
    /\ main_pc = "dispatch"
    /\ IF thread_idx < threads_num
       THEN /\ matrix_mult_data_arr' =
                 [matrix_mult_data_arr EXCEPT ![thread_idx] =
                     [target_row_A |-> targetRow(thread_idx, mat_C_cols),
                      target_col_B |-> targetCol(thread_idx, mat_C_cols)]]
            /\ \E status \in CreateResults :
                  IF checkThreadCreationStatus(status) # 0
                  THEN /\ CreateFailed
                       /\ create_log' = Append(create_log, status)
                  ELSE IF threads = NULL
                  THEN \* the handle is stored through a NULL array
                       /\ main_pc' = "crashed"
                       /\ UNCHANGED <<threads, thread_idx, cancel_idx, create_log,
                                      workers>>
                  ELSE /\ CreateSucceeded
                       /\ create_log' = Append(create_log, status)
       ELSE /\ main_pc' = "join"
            /\ thread_idx' = 0
            /\ UNCHANGED <<matrix_mult_data_arr, threads, cancel_idx, create_log,
                           workers>>
    /\ UNCHANGED <<aside, inputs, mats, setup>>

\* threads[cancel_idx] names a thread that was created
ValidHandle(idx) ==
    /\ threads # NULL
    /\ idx < threads_num
    /\ threads[idx] # Indeterminate

\* lines 349-352: one evaluation of the cancellation loop.  cancel_idx is an
\* unsigned int, so the loop condition cancel_idx >= 0 is evaluated on a
\* value of 0 .. UINT_MOD - 1.
Rollback ==
    /\ main_pc = "rollback"
    /\ IF cancel_idx >= 0
       THEN IF ValidHandle(cancel_idx)
            THEN /\ cancel_pending' = cancel_pending \cup {threads[cancel_idx]}
                 /\ cancel_idx' = USub(cancel_idx, 1)
                 /\ UNCHANGED main_pc
            ELSE \* read outside the array or of a handle never stored:
                 \* the process faults, or the call has no effect
                 \/ /\ main_pc' = "crashed"
                    /\ UNCHANGED <<cancel_idx, cancel_pending>>
                 \/ /\ cancel_idx' = USub(cancel_idx, 1)
                    /\ UNCHANGED <<main_pc, cancel_pending>>
       ELSE /\ main_pc' = "returned"
            /\ UNCHANGED <<cancel_idx, cancel_pending>>
    /\ UNCHANGED <<aside, inputs, mats, setup, threads, matrix_mult_data_arr, thread_idx,
                   create_log, pc, calculated_value, spawn_attr, mutex_calls>>

\* variant of Join whose loop takes the handles from the last to the first
Join_reversed ==
    /\ main_pc = "join"
    /\ IF thread_idx < threads_num
       THEN /\ pc[threads[threads_num - 1 - thread_idx]] = "terminated"
            /\ pc' = [pc EXCEPT ![threads[threads_num - 1 - thread_idx]] = "joined"]
            /\ thread_idx' = UAdd(thread_idx, 1)
            /\ UNCHANGED main_pc
       ELSE /\ main_pc' = "print"
            /\ UNCHANGED <<pc, thread_idx>>
    /\ UNCHANGED <<aside, inputs, mats, setup, threads, matrix_mult_data_arr, cancel_idx,
                   create_log, calculated_value, cancel_pending, spawn_attr,
                   mutex_calls>>

\* variant of Join whose loop stops one thread short
Join_short ==
    /\ main_pc = "join"
    /\ IF UAdd(thread_idx, 1) < threads_num
       THEN /\ pc[threads[thread_idx]] = "terminated"
            /\ pc' = [pc EXCEPT ![threads[thread_idx]] = "joined"]
            /\ thread_idx' = UAdd(thread_idx, 1)
            /\ UNCHANGED main_pc
       ELSE /\ main_pc' = "print"
            /\ UNCHANGED <<pc, thread_idx>>
    /\ UNCHANGED <<aside, inputs, mats, setup, threads, matrix_mult_data_arr, cancel_idx,
                   create_log, calculated_value, cancel_pending, spawn_attr,
                   mutex_calls>>

\* lines 357-358: one iteration of the join loop; pthread_join blocks until
\* the thread has terminated
Join ==
    /\ main_pc = "join"
    /\ IF thread_idx < threads_num
       THEN /\ pc[threads[thread_idx]] = "terminated"
            /\ pc' = [pc EXCEPT ![threads[thread_idx]] = "joined"]
            /\ thread_idx' = UAdd(thread_idx, 1)
            /\ UNCHANGED main_pc
       ELSE /\ main_pc' = "print"
            /\ UNCHANGED <<pc, thread_idx>>
    /\ UNCHANGED <<aside, inputs, mats, setup, threads, matrix_mult_data_arr, cancel_idx,
                   create_log, calculated_value, cancel_pending, spawn_attr,
                   mutex_calls>>

\* lines 361-363: printMatrix of A, B and C
PrintMatrices ==
    /\ main_pc = "print"
    /\ C_readers' = C_readers \cup {"main"}
    /\ main_pc' = "cleanup"
    /\ UNCHANGED <<aside, inputs, mat_A, mat_B, mat_C, writers, setup, loopv, workers>>

\* variant of Cleanup that does not release the result matrix
Cleanup_leakC ==
    /\ main_pc = "cleanup"
    /\ threads' = NULL
    /\ matrix_mult_data_arr' = NULL
    /\ mat_C_lock' = [mat_C_lock EXCEPT !.state = "destroyed"]
    /\ attr' = [attr EXCEPT !.init = FALSE]
    /\ mat_A' = NULL /\ mat_B' = NULL
    /\ main_pc' = "returned"
    /\ UNCHANGED <<aside, inputs, mat_C, writers, C_readers, threads_num, set_attr_status,
                   thread_idx, cancel_idx, create_log, workers>>

\* lines 366-378: release of the arrays, the mutex, attr and the matrices
Cleanup ==
    /\ main_pc = "cleanup"
    /\ threads' = NULL
    /\ matrix_mult_data_arr' = NULL
    /\ mat_C_lock' = [mat_C_lock EXCEPT !.state = "destroyed"]
    /\ attr' = [attr EXCEPT !.init = FALSE]
    /\ mat_A' = NULL /\ mat_B' = NULL /\ mat_C' = NULL
    /\ main_pc' = "returned"
    /\ UNCHANGED <<aside, inputs, writers, C_readers, threads_num, set_attr_status,
                   thread_idx, cancel_idx, create_log, workers>>

\* ------------------------ exampleMatrixMultiplication, ThreadsWithBarrier.c
\* The earlier variant of the dispatcher: no attribute object, and no test of
\* the three matrices after their allocation.

\* lines 346-352: the matrices (each allocation may fail), threads_num and the
\* handle array; execution goes on whatever the allocations returned
Earlier_CreateMatrices ==
    /\ main_pc = "create_matrices"
    /\ \E okA \in BOOLEAN, okB \in BOOLEAN, okC \in BOOLEAN :
          /\ mat_A' = IF okA THEN vals_A ELSE NULL
          /\ mat_B' = IF okB THEN vals_B ELSE NULL
          /\ mat_C' = IF okC THEN allocateMatrix(mat_C_rows, mat_C_cols) ELSE NULL
    /\ writers' = [cell \in CellsOfC |-> {}]
    /\ threads_num' = UMul(mat_C_rows, mat_C_cols)
    /\ \E ok \in BOOLEAN :
          threads' = IF ok THEN [i \in 0 .. (threads_num' - 1) |-> Indeterminate]
                     ELSE NULL
    /\ main_pc' = "alloc_data"
    /\ UNCHANGED <<aside, inputs, C_readers, attr, set_attr_status, mat_C_lock,
                   matrix_mult_data_arr, thread_idx, cancel_idx, create_log,
                   workers>>

\* lines 358-382: work item array and common data (either malloc may fail and
\* end the call), then mutex init; threads are later created with a NULL
\* attribute argument, so attr stays as it is
Earlier_AllocData ==
    /\ main_pc = "alloc_data"
    /\ \E okArr \in BOOLEAN, okCommon \in BOOLEAN :
          IF okArr /\ okCommon
          THEN /\ matrix_mult_data_arr' =
                    [i \in 0 .. (threads_num - 1) |->
                        [target_row_A |-> Indeterminate, target_col_B |-> Indeterminate]]
               /\ mat_C_lock' = [state |-> "init", owner |-> NoThread]
               /\ thread_idx' = 0
               /\ main_pc' = "dispatch"
          ELSE /\ main_pc' = "returned"
               /\ UNCHANGED <<matrix_mult_data_arr, mat_C_lock, thread_idx>>
    /\ UNCHANGED <<aside, inputs, mats, threads_num, attr, set_attr_status, threads,
                   cancel_idx, create_log, workers>>

\* lines 417-427: release of the arrays, the mutex and the matrices
Earlier_Cleanup ==
    /\ main_pc = "cleanup"
    /\ threads' = NULL
    /\ matrix_mult_data_arr' = NULL
    /\ mat_C_lock' = [mat_C_lock EXCEPT !.state = "destroyed"]
    /\ mat_A' = NULL /\ mat_B' = NULL /\ mat_C' = NULL
    /\ main_pc' = "returned"
    /\ UNCHANGED <<aside, inputs, writers, C_readers, threads_num, attr, set_attr_status,
                   thread_idx, cancel_idx, create_log, workers>>

\* ---------------------------------------------------- matrixMultThreadRoutine
\* variant of Running in which a pending cancellation request stops the worker
Running_cancellable(w) ==
    main_pc # "crashed" /\ w < threads_num /\ w \notin cancel_pending

\* a worker runs as long as the process does
Running(w) == main_pc # "crashed" /\ w < threads_num

\* lines 236-237: enable deferred cancellation
SetCancel(w) ==
    /\ Running(w) /\ pc[w] = "setcancel"
    /\ pc' = [pc EXCEPT ![w] = "compute"]
    /\ UNCHANGED <<aside, main_pc, inputs, mats, setup, loopv, calculated_value,
                   cancel_pending, spawn_attr, mutex_calls>>

\* lines 241-245: the dot product, from the worker's own work item
Compute(w) ==
    /\ Running(w) /\ pc[w] = "compute"
    /\ IF mat_A = NULL \/ mat_B = NULL
       THEN \* A[row_A] or B[i] is read through a NULL pointer
            /\ main_pc' = "crashed"
            /\ UNCHANGED <<pc, calculated_value>>
       ELSE /\ calculated_value' =
                 [calculated_value EXCEPT ![w] =
                     multiplyRowByColumn(mat_A, mat_B, mat_A_cols,
                                         matrix_mult_data_arr[w].target_row_A,
                                         matrix_mult_data_arr[w].target_col_B)]
            /\ pc' = [pc EXCEPT ![w] = "lock"]
            /\ UNCHANGED main_pc
    /\ UNCHANGED <<aside, inputs, mats, setup, loopv, cancel_pending, spawn_attr,
                   mutex_calls>>

\* variant of Lock that does not wait for the mutex to be free
Lock_nowait(w) ==
    /\ Running(w) /\ pc[w] = "lock"
    /\ mat_C_lock' = [mat_C_lock EXCEPT !.owner = w]
    /\ mutex_calls' = [mutex_calls EXCEPT ![w].lock = @ + 1]
    /\ pc' = [pc EXCEPT ![w] = "write"]
    /\ UNCHANGED <<aside, main_pc, inputs, mats, threads_num, attr, set_attr_status, loopv,
                   calculated_value, cancel_pending, spawn_attr>>

\* line 248: pthread_mutex_lock
Lock(w) ==
    /\ Running(w) /\ pc[w] = "lock"
    /\ mat_C_lock.owner = NoThread
    /\ mat_C_lock' = [mat_C_lock EXCEPT !.owner = w]
    /\ mutex_calls' = [mutex_calls EXCEPT ![w].lock = @ + 1]
    /\ pc' = [pc EXCEPT ![w] = "write"]
    /\ UNCHANGED <<aside, main_pc, inputs, mats, threads_num, attr, set_attr_status, loopv,
                   calculated_value, cancel_pending, spawn_attr>>

\* variant of WriteCell that also stores the value in the row of A it read
WriteCell_intoA(w) ==
    /\ Running(w) /\ pc[w] = "write"
    /\ mat_C # NULL
    /\ LET row == matrix_mult_data_arr[w].target_row_A
           col == matrix_mult_data_arr[w].target_col_B
       IN /\ mat_C' = [mat_C EXCEPT ![row][col] = calculated_value[w]]
          /\ mat_A' = [mat_A EXCEPT ![row][0] = calculated_value[w]]
          /\ writers' = [writers EXCEPT ![<<row, col>>] = @ \cup {w}]
    /\ pc' = [pc EXCEPT ![w] = "unlock"]
    /\ UNCHANGED <<aside, main_pc, inputs, mat_B, C_readers, setup, loopv,
                   calculated_value, cancel_pending, spawn_attr, mutex_calls>>

\* variant of WriteCell that returns right after the assignment
WriteCell_thenReturn(w) ==
    /\ Running(w) /\ pc[w] = "write"
    /\ mat_C # NULL
    /\ LET row == matrix_mult_data_arr[w].target_row_A
           col == matrix_mult_data_arr[w].target_col_B
       IN /\ mat_C' = [mat_C EXCEPT ![row][col] = calculated_value[w]]
          /\ writers' = [writers EXCEPT ![<<row, col>>] = @ \cup {w}]
    /\ pc' = [pc EXCEPT ![w] = "return"]
    /\ UNCHANGED <<aside, main_pc, inputs, mat_A, mat_B, C_readers, setup, loopv,
                   calculated_value, cancel_pending, spawn_attr, mutex_calls>>

\* variant of WriteCell that swaps the row and the column of the target cell
WriteCell_transposed(w) ==
    /\ Running(w) /\ pc[w] = "write"
    /\ mat_C # NULL
    /\ LET row == matrix_mult_data_arr[w].target_col_B
           col == matrix_mult_data_arr[w].target_row_A
       IN /\ mat_C' = [mat_C EXCEPT ![row][col] = calculated_value[w]]
          /\ writers' = [writers EXCEPT ![<<row, col>>] = @ \cup {w}]
    /\ pc' = [pc EXCEPT ![w] = "unlock"]
    /\ UNCHANGED <<aside, main_pc, inputs, mat_A, mat_B, C_readers, setup, loopv,
                   calculated_value, cancel_pending, spawn_attr, mutex_calls>>

\* line 250: the assignment to the worker's cell of C
WriteCell(w) ==
    /\ Running(w) /\ pc[w] = "write"
    /\ IF mat_C = NULL
       THEN \* mat_C[row] is read through a NULL pointer
            /\ main_pc' = "crashed"
            /\ UNCHANGED <<mat_C, writers, pc>>
       ELSE LET row == matrix_mult_data_arr[w].target_row_A
                col == matrix_mult_data_arr[w].target_col_B
            IN /\ mat_C' = [mat_C EXCEPT ![row][col] = calculated_value[w]]
               /\ writers' = [writers EXCEPT ![<<row, col>>] = @ \cup {w}]
               /\ pc' = [pc EXCEPT ![w] = "unlock"]
               /\ UNCHANGED main_pc
    /\ UNCHANGED <<aside, inputs, mat_A, mat_B, C_readers, setup, loopv,
                   calculated_value, cancel_pending, spawn_attr, mutex_calls>>

\* variant of Unlock that goes on without releasing the mutex
Unlock_keep(w) ==
    /\ Running(w) /\ pc[w] = "unlock"
    /\ pc' = [pc EXCEPT ![w] = "return"]
    /\ UNCHANGED <<aside, main_pc, inputs, mats, setup, loopv, calculated_value,
                   cancel_pending, spawn_attr, mutex_calls>>

\* line 252: pthread_mutex_unlock
Unlock(w) ==
    /\ Running(w) /\ pc[w] = "unlock"
    /\ mat_C_lock' = [mat_C_lock EXCEPT !.owner = NoThread]
    /\ mutex_calls' = [mutex_calls EXCEPT ![w].unlock = @ + 1]
    /\ pc' = [pc EXCEPT ![w] = "return"]
    /\ UNCHANGED <<aside, main_pc, inputs, mats, threads_num, attr, set_attr_status, loopv,
                   calculated_value, cancel_pending, spawn_attr>>

\* line 254: return NULL
Return(w) ==
    /\ Running(w) /\ pc[w] = "return"
    /\ pc' = [pc EXCEPT ![w] = "terminated"]
    /\ UNCHANGED <<aside, main_pc, inputs, mats, setup, loopv, calculated_value,
                   cancel_pending, spawn_attr, mutex_calls>>

Dispatcher ==
    \/ CreateMatrices
    \/ SetAttrStep
    \/ AllocData
    \/ Dispatch
    \/ Rollback
    \/ Join
    \/ PrintMatrices
    \/ Cleanup

Worker(w) ==
    \/ SetCancel(w)
    \/ Compute(w)
    \/ Lock(w)
    \/ WriteCell(w)
    \/ Unlock(w)
    \/ Return(w)

Next == Dispatcher \/ \E w \in Workers : Worker(w)

Spec == Init /\ [][Next]_vars

\* the same program started on the two literal inputs
SpecLiteral == InitLiteral /\ [][Next]_vars

\* matrixMultThreadRoutine with the calls of lines 248 and 252 removed: the
\* worker passes both places without touching mat_C_lock
NoGuard_Lock(w) ==
    /\ Running(w) /\ pc[w] = "lock"
    /\ pc' = [pc EXCEPT ![w] = "write"]
    /\ UNCHANGED <<aside, main_pc, inputs, mats, setup, loopv, calculated_value,
                   cancel_pending, spawn_attr, mutex_calls>>

NoGuard_Unlock(w) ==
    /\ Running(w) /\ pc[w] = "unlock"
    /\ pc' = [pc EXCEPT ![w] = "return"]
    /\ UNCHANGED <<aside, main_pc, inputs, mats, setup, loopv, calculated_value,
                   cancel_pending, spawn_attr, mutex_calls>>

NoGuard_Worker(w) ==
    \/ SetCancel(w)
    \/ Compute(w)
    \/ NoGuard_Lock(w)
    \/ WriteCell(w)
    \/ NoGuard_Unlock(w)
    \/ Return(w)

NextNoGuard == Dispatcher \/ \E w \in Workers : NoGuard_Worker(w)

\* the engine without the guard, on the same inputs
SpecNoGuard == Init /\ [][NextNoGuard]_vars

\* ------------------------------------------ allocateMatrix, deallocateMatrix
\* The two functions exercised on their own: allocateMatrix runs with every
\* malloc free to fail, then deallocateMatrix is applied to what it left.

MallocResults == {"block", "null"}

\* lines 81-84: the row table
DM_AllocTable ==
    /\ dm_pc = "alloc_table"
    /\ \E got \in MallocResults :
          IF got = "null"
          THEN /\ dm_ret' = "NULL"
               /\ dm_pc' = "allocated"
               /\ UNCHANGED <<dm_mat, dm_table>>
          ELSE /\ dm_table' = "block"
               /\ dm_mat' = [r \in 0 .. (dm_rows - 1) |-> "uninit"]
               /\ dm_pc' = "alloc_rows"
               /\ UNCHANGED dm_ret
    /\ dm_row_idx' = 0
    /\ UNCHANGED <<dm_others, dm_rows, dm_arg, dm_faults>>

\* lines 86-94: one evaluation of the row loop of allocateMatrix; a failed
\* row returns NULL and leaves the table and the earlier rows as they are
DM_AllocRow ==
    /\ dm_pc = "alloc_rows"
    /\ IF dm_row_idx < dm_rows
       THEN \E got \in MallocResults :
               /\ dm_mat' = [dm_mat EXCEPT ![dm_row_idx] = got]
               /\ IF got = "null"
                  THEN /\ dm_ret' = "NULL"
                       /\ dm_pc' = "allocated"
                       /\ UNCHANGED dm_row_idx
                  ELSE /\ dm_row_idx' = dm_row_idx + 1
                       /\ UNCHANGED <<dm_ret, dm_pc>>
       ELSE /\ dm_ret' = "table"
            /\ dm_pc' = "allocated"
            /\ UNCHANGED <<dm_mat, dm_row_idx>>
    /\ UNCHANGED <<dm_others, dm_rows, dm_table, dm_arg, dm_faults>>

\* deallocateMatrix is called with the pointer allocateMatrix returned or,
\* for a matrix whose row allocation failed, with its row table
DM_Call ==
    /\ dm_pc = "allocated"
    /\ dm_arg' \in {dm_ret} \cup (IF dm_table = "block" THEN {"table"} ELSE {})
    /\ dm_row_idx' = 0
    /\ dm_pc' = "free_rows"
    /\ UNCHANGED <<dm_others, dm_rows, dm_mat, dm_table, dm_ret, dm_faults>>

\* lines 145-146: one evaluation of the loop of deallocateMatrix.  Reading
\* mat[row_idx] through a NULL mat faults; free of a row pointer that was
\* never assigned is undefined: the process faults or goes on.
DM_FreeRow ==
    /\ dm_pc = "free_rows"
    /\ IF dm_row_idx < dm_rows
       THEN IF dm_arg = "NULL"
            THEN /\ dm_faults' = dm_faults \cup {"read through NULL mat"}
                 /\ dm_pc' = "crashed"
                 /\ UNCHANGED <<dm_mat, dm_row_idx>>
            ELSE IF dm_mat[dm_row_idx] = "uninit"
            THEN /\ dm_faults' = dm_faults \cup {"free of unassigned row pointer"}
                 /\ \/ /\ dm_pc' = "crashed"
                       /\ UNCHANGED dm_row_idx
                    \/ /\ dm_row_idx' = dm_row_idx + 1
                       /\ UNCHANGED dm_pc
                 /\ UNCHANGED dm_mat
            ELSE /\ dm_mat' = [dm_mat EXCEPT ![dm_row_idx] =
                                  IF @ = "block" THEN "freed" ELSE @]
                 /\ dm_faults' = dm_faults \cup
                                    (IF dm_mat[dm_row_idx] = "freed"
                                     THEN {"row freed twice"} ELSE {})
                 /\ dm_row_idx' = dm_row_idx + 1
                 /\ UNCHANGED dm_pc
       ELSE /\ dm_pc' = "free_table"
            /\ UNCHANGED <<dm_mat, dm_row_idx, dm_faults>>
    /\ UNCHANGED <<dm_others, dm_rows, dm_table, dm_ret, dm_arg>>

\* line 148: free(mat)
DM_FreeTable ==
    /\ dm_pc = "free_table"
    /\ dm_table' = IF dm_arg = "table" THEN "freed" ELSE dm_table
    /\ dm_pc' = "done"
    /\ UNCHANGED <<dm_others, dm_rows, dm_row_idx, dm_mat, dm_ret, dm_arg, dm_faults>>

NextDealloc ==
    \/ DM_AllocTable
    \/ DM_AllocRow
    \/ DM_Call
    \/ DM_FreeRow
    \/ DM_FreeTable

\* allocateMatrix is entered with a row count the dimensions can take
InitDealloc ==
    /\ EngineIdle /\ PopIdle /\ TwaIdle /\ DemosIdle
    /\ dm_pc = "alloc_table"
    /\ dm_rows \in DimRange
    /\ dm_row_idx = 0
    /\ dm_mat = NULL
    /\ dm_table = "none" /\ dm_ret = "none" /\ dm_arg = "none"
    /\ dm_faults = {}

SpecDealloc == InitDealloc /\ [][NextDealloc]_vars

\* ---------------------- getDelimitedRandomInteger, populateRandomValuesMatrix
\* populateRandomValuesMatrix exercised on its own, on a fully allocated
\* matrix, for every min_val <= max_val of the type int.

\* max_val - min_val + 1 does not fit an int: the expression of line 100
\* overflows
RangeOverflows(min_val, max_val) == (max_val - min_val) + 1 > INT_MAX

\* what line 100 leaves when the overflowing subtraction and addition wrap
\* around: the remainder of r by the wrapped divisor (r is not negative,
\* so the remainder is r modulo its absolute value), plus min_val
WrappedDivisor(min_val, max_val) == SWrap(SWrap(max_val - min_val) + 1)
WrappedResult(r, min_val, max_val) ==
    LET d == WrappedDivisor(min_val, max_val)
    IN SWrap((r % (IF d < 0 THEN 0 - d ELSE d)) + min_val)

\* lines 110-114: the assignment of one cell, and the loop counters after it.
\* When line 100 overflows the behaviour is undefined: the process faults
\* (a wrapped divisor of 0 is a division by zero) or the wrapped value is
\* stored.
POP_Cell ==
    /\ pop_pc = "populate"
    /\ pop_row_idx < pop_rows
    /\ \E r \in 0 .. RAND_MAX :
          IF RangeOverflows(pop_min, pop_max)
          THEN /\ pop_faults' = pop_faults \cup {"signed overflow"}
               /\ \/ /\ pop_pc' = "crashed"
                     /\ UNCHANGED <<pop_mat, pop_row_idx, pop_col_idx>>
                  \/ /\ WrappedDivisor(pop_min, pop_max) # 0
                     /\ pop_mat' = [pop_mat EXCEPT ![pop_row_idx][pop_col_idx] =
                                       WrappedResult(r, pop_min, pop_max)]
                     /\ pop_col_idx' = (pop_col_idx + 1) % pop_cols
                     /\ pop_row_idx' = IF pop_col_idx + 1 = pop_cols
                                       THEN pop_row_idx + 1 ELSE pop_row_idx
                     /\ UNCHANGED pop_pc
          ELSE /\ pop_mat' = [pop_mat EXCEPT ![pop_row_idx][pop_col_idx] =
                                 getDelimitedRandomInteger(r, pop_min, pop_max)]
               /\ pop_col_idx' = (pop_col_idx + 1) % pop_cols
               /\ pop_row_idx' = IF pop_col_idx + 1 = pop_cols
                                 THEN pop_row_idx + 1 ELSE pop_row_idx
               /\ UNCHANGED <<pop_pc, pop_faults>>
    /\ UNCHANGED <<pop_others, pop_min, pop_max, pop_rows, pop_cols>>

\* line 117: return mat, once the row loop is over
POP_Return ==
    /\ pop_pc = "populate"
    /\ pop_row_idx = pop_rows
    /\ pop_pc' = "done"
    /\ UNCHANGED <<pop_others, pop_min, pop_max, pop_rows, pop_cols, pop_mat,
                   pop_row_idx, pop_col_idx, pop_faults>>

NextPopulate == POP_Cell \/ POP_Return

\* populateRandomValuesMatrix is entered with a fully allocated matrix and
\* any min_val <= max_val
InitPopulate ==
    /\ EngineIdle /\ DmIdle /\ TwaIdle /\ DemosIdle
    /\ pop_pc = "populate"
    /\ pop_min \in IntRange /\ pop_max \in IntRange
    /\ pop_min <= pop_max
    /\ pop_rows \in 1 .. MaxPopDim /\ pop_cols \in 1 .. MaxPopDim
    /\ pop_mat = allocateMatrix(pop_rows, pop_cols)
    /\ pop_row_idx = 0 /\ pop_col_idx = 0
    /\ pop_faults = {}

SpecPopulate == InitPopulate /\ [][NextPopulate]_vars

\* ----------------- exampleMatrixMultiplication, dimensions and threads_num
\* The first statements of exampleMatrixMultiplication for every value
\* rand() can deliver, with no bound on the number of cells of C.

\* the residues of rand() that matter to a dimension
DimDraws == 0 .. (MAX_MAT_DIM - MIN_MAT_DIM)

\* lines 263-270: the three dimensions drawn (mat_B_rows, mat_C_rows and
\* mat_C_cols are copies of them)
Dims_Draw ==
    /\ main_pc = "draw_dims"
    /\ \E r1 \in DimDraws, r2 \in DimDraws, r3 \in DimDraws :
          /\ mat_A_rows' = getDelimitedRandomInteger(r1, MIN_MAT_DIM, MAX_MAT_DIM)
          /\ mat_A_cols' = getDelimitedRandomInteger(r2, MIN_MAT_DIM, MAX_MAT_DIM)
          /\ mat_B_cols' = getDelimitedRandomInteger(r3, MIN_MAT_DIM, MAX_MAT_DIM)
    /\ main_pc' = "dims_drawn"
    /\ UNCHANGED <<aside, vals_A, vals_B, mats, setup, loopv, workers>>

\* lines 272-282: the three matrices with these dimensions; the call ends
\* when one of them is NULL
Dims_Create ==
    /\ main_pc = "dims_drawn"
    /\ vals_A' = populateRandomValuesMatrix(1, 4, mat_A_rows, mat_A_cols,
                                            MIN_MAT_VAL, MAX_MAT_VAL)
    /\ vals_B' = populateRandomValuesMatrix(1, 4 + (mat_A_rows * mat_A_cols),
                                            mat_B_rows, mat_B_cols,
                                            MIN_MAT_VAL, MAX_MAT_VAL)
    /\ \E ok \in BOOLEAN :
          /\ mat_A' = IF ok THEN vals_A' ELSE NULL
          /\ mat_B' = IF ok THEN vals_B' ELSE NULL
          /\ mat_C' = IF ok THEN allocateMatrix(mat_C_rows, mat_C_cols) ELSE NULL
          /\ main_pc' = IF ok THEN "count_threads" ELSE "returned"
    /\ UNCHANGED <<aside, mat_A_rows, mat_A_cols, mat_B_cols, writers, C_readers,
                   setup, loopv, workers>>

\* line 285: threads_num
Dims_Count ==
    /\ main_pc = "count_threads"
    /\ threads_num' = (mat_C_rows * mat_C_cols) % (2 ^ DIMS_UINT_BITS)
    /\ main_pc' = "counted"
    /\ UNCHANGED <<aside, inputs, mats, attr, set_attr_status, mat_C_lock, loopv,
                   workers>>

NextDims == Dims_Draw \/ Dims_Create \/ Dims_Count

InitDims ==
    /\ main_pc = "draw_dims"
    /\ mat_A_rows = 0 /\ mat_A_cols = 0 /\ mat_B_cols = 0
    /\ vals_A = NULL /\ vals_B = NULL
    /\ EngineRest
    /\ AsideIdle

SpecDims == InitDims /\ [][NextDims]_vars

\* ------------------------------ threadsWithAttributes, ThreadsWithAttributes.c
\* threadAttributesCreationStatus
threadAttributesCreationStatus(attr_creation_status) ==
    IF attr_creation_status # 0 THEN 0 - 1 ELSE 0

\* variant of examplePriority that gives every thread priority 1
examplePriority_flat(idx) == 1

\* line 284: the priority of attribute index idx
examplePriority(idx) == idx + 1

\* setExampleThreadAttributes: r1 .. r6 are what the OS answers to the six
\* setters
setExampleThreadAttributes(p_attr, scheduling_policy, sched_priority, r1, r2, r3, r4, r5, r6) ==
    IF r1 # 0 THEN [attr |-> p_attr, err |-> r1]
    ELSE LET a1 == [p_attr EXCEPT !.detachstate = PTHREAD_CREATE_JOINABLE] IN
    IF r2 # 0 THEN [attr |-> a1, err |-> r2]
    ELSE LET a2 == [a1 EXCEPT !.stacksize = SIZE_OF_1_MB_IN_BYTES] IN
    IF r3 # 0 THEN [attr |-> a2, err |-> r3]
    ELSE LET a3 == [a2 EXCEPT !.guardsize = SIZE_OF_4_KB] IN
    IF r4 # 0 THEN [attr |-> a3, err |-> r4]
    ELSE LET a4 == [a3 EXCEPT !.policy = scheduling_policy] IN
    IF r5 # 0 THEN [attr |-> a4, err |-> r5]
    ELSE LET a5 == [a4 EXCEPT !.priority = sched_priority] IN
    IF r6 # 0 THEN [attr |-> a5, err |-> r6]
    ELSE [attr |-> [a5 EXCEPT !.inherit = PTHREAD_EXPLICIT_SCHED], err |-> 0]

\* lines 278-293: one evaluation of the attribute loop
TWA_InitAttr ==
    /\ twa_pc = "init_attrs"
    /\ IF attr_idx < NUMBER_OF_THREADS
       THEN \E r0 \in SetterResults :
               IF threadAttributesCreationStatus(r0) # 0
               THEN /\ twa_pc' = "returned"
                    /\ UNCHANGED <<attr_idx, thread_attrs, sched_priority_param,
                                   twa_thread_idx>>
               ELSE \E r1 \in SetterResults, r2 \in SetterResults,
                       r3 \in SetterResults, r4 \in SetterResults,
                       r5 \in SetterResults, r6 \in SetterResults :
                       LET res == setExampleThreadAttributes(
                                      exampleAttrInit, SCHED_RR,
                                      examplePriority(attr_idx),
                                      r1, r2, r3, r4, r5, r6)
                       IN /\ sched_priority_param' =
                                [sched_priority_param EXCEPT ![attr_idx] =
                                     examplePriority(attr_idx)]
                          /\ thread_attrs' = [thread_attrs EXCEPT ![attr_idx] = res.attr]
                          /\ IF res.err # 0
                             THEN /\ twa_pc' = "returned"
                                  /\ UNCHANGED attr_idx
                             ELSE /\ attr_idx' = attr_idx + 1
                                  /\ UNCHANGED twa_pc
                          /\ UNCHANGED twa_thread_idx
       ELSE /\ twa_pc' = "launch"
            /\ twa_thread_idx' = 0
            /\ UNCHANGED <<attr_idx, thread_attrs, sched_priority_param>>
    /\ UNCHANGED <<twa_others, twa_cancel_idx, twa_threads, twa_state,
                   twa_spawn_attr, twa_create_log, twa_cancel_log>>

\* lines 296-309: one evaluation of the launch loop; a failed pthread_create
\* enters the cancellation loop, which starts at thread_idx - 1
TWA_Launch ==
    /\ twa_pc = "launch"
    /\ IF twa_thread_idx < NUMBER_OF_THREADS
       THEN \E status \in CreateResults :
               /\ twa_create_log' = Append(twa_create_log, status)
               /\ IF checkThreadCreationStatus(status) # 0
                  THEN /\ twa_cancel_idx' = twa_thread_idx - 1
                       /\ twa_pc' = "rollback"
                       /\ UNCHANGED <<twa_thread_idx, twa_threads, twa_state,
                                      twa_spawn_attr, attr_idx>>
                  ELSE /\ twa_threads' = [twa_threads EXCEPT ![twa_thread_idx] =
                                              twa_thread_idx]
                       /\ twa_state' = [twa_state EXCEPT ![twa_thread_idx] = "running"]
                       /\ twa_spawn_attr' = [twa_spawn_attr EXCEPT ![twa_thread_idx] =
                                                 thread_attrs[twa_thread_idx]]
                       /\ twa_thread_idx' = twa_thread_idx + 1
                       /\ UNCHANGED <<twa_pc, twa_cancel_idx, attr_idx>>
       ELSE /\ twa_pc' = "destroy_attrs"
            /\ attr_idx' = 0
            /\ UNCHANGED <<twa_thread_idx, twa_cancel_idx, twa_threads, twa_state,
                           twa_spawn_attr, twa_create_log>>
    /\ UNCHANGED <<twa_others, thread_attrs, sched_priority_param, twa_cancel_log>>

\* variant of TWA_Rollback whose loop condition is cancel_idx > 0
TWA_Rollback_aboveZero ==
    /\ twa_pc = "rollback"
    /\ IF twa_cancel_idx > 0
       THEN /\ twa_cancel_log' = Append(twa_cancel_log, twa_threads[twa_cancel_idx])
            /\ twa_cancel_idx' = twa_cancel_idx - 1
            /\ UNCHANGED twa_pc
       ELSE /\ twa_pc' = "returned"
            /\ UNCHANGED <<twa_cancel_idx, twa_cancel_log>>
    /\ UNCHANGED <<twa_others, attr_idx, twa_thread_idx, thread_attrs,
                   sched_priority_param, twa_threads, twa_state, twa_spawn_attr,
                   twa_create_log>>

\* lines 303-306: one evaluation of the cancellation loop (cancel_idx is an
\* int), then return
TWA_Rollback ==
    /\ twa_pc = "rollback"
    /\ IF twa_cancel_idx >= 0
       THEN /\ twa_cancel_log' = Append(twa_cancel_log, twa_threads[twa_cancel_idx])
            /\ twa_cancel_idx' = twa_cancel_idx - 1
            /\ UNCHANGED twa_pc
       ELSE /\ twa_pc' = "returned"
            /\ UNCHANGED <<twa_cancel_idx, twa_cancel_log>>
    /\ UNCHANGED <<twa_others, attr_idx, twa_thread_idx, thread_attrs,
                   sched_priority_param, twa_threads, twa_state, twa_spawn_attr,
                   twa_create_log>>

\* lines 312-313: one evaluation of the loop of pthread_attr_destroy
TWA_DestroyAttr ==
    /\ twa_pc = "destroy_attrs"
    /\ IF attr_idx < NUMBER_OF_THREADS
       THEN /\ thread_attrs' = [thread_attrs EXCEPT ![attr_idx].init = FALSE]
            /\ attr_idx' = attr_idx + 1
            /\ UNCHANGED <<twa_pc, twa_thread_idx>>
       ELSE /\ twa_pc' = "join"
            /\ twa_thread_idx' = 0
            /\ UNCHANGED <<thread_attrs, attr_idx>>
    /\ UNCHANGED <<twa_others, twa_cancel_idx, sched_priority_param, twa_threads,
                   twa_state, twa_spawn_attr, twa_create_log, twa_cancel_log>>

\* lines 315-316: one evaluation of the join loop; pthread_join blocks until
\* the thread has terminated
TWA_Join ==
    /\ twa_pc = "join"
    /\ IF twa_thread_idx < NUMBER_OF_THREADS
       THEN /\ twa_state[twa_threads[twa_thread_idx]] \in {"terminated", "cancelled"}
            /\ twa_state' = [twa_state EXCEPT ![twa_threads[twa_thread_idx]] = "joined"]
            /\ twa_thread_idx' = twa_thread_idx + 1
            /\ UNCHANGED twa_pc
       ELSE /\ twa_pc' = "returned"
            /\ UNCHANGED <<twa_state, twa_thread_idx>>
    /\ UNCHANGED <<twa_others, attr_idx, twa_cancel_idx, thread_attrs,
                   sched_priority_param, twa_threads, twa_spawn_attr,
                   twa_create_log, twa_cancel_log>>

\* the threads pthread_cancel has been called on
TwaCancelled == {twa_cancel_log[k] : k \in 1 .. Len(twa_cancel_log)}

\* lines 225-256: threadWithAttributesRoutine, which shares nothing with the
\* other threads: it runs to its return, or, when a cancellation request is
\* pending, may end at one of its printf calls (cancellation points)
TWA_Routine(w) ==
    /\ twa_state[w] = "running"
    /\ \/ twa_state' = [twa_state EXCEPT ![w] = "terminated"]
       \/ /\ w \in TwaCancelled
          /\ twa_state' = [twa_state EXCEPT ![w] = "cancelled"]
    /\ UNCHANGED <<twa_others, twa_pc, attr_idx, twa_thread_idx, twa_cancel_idx,
                   thread_attrs, sched_priority_param, twa_threads, twa_spawn_attr,
                   twa_create_log, twa_cancel_log>>

TWA_Main ==
    \/ TWA_InitAttr
    \/ TWA_Launch
    \/ TWA_Rollback
    \/ TWA_DestroyAttr
    \/ TWA_Join

NextTWA == TWA_Main \/ \E w \in ThreadIdx : TWA_Routine(w)

InitTWA ==
    /\ EngineIdle /\ DmIdle /\ PopIdle /\ DemosIdle
    /\ twa_pc = "init_attrs"
    /\ TwaLocals

SpecTWA == InitTWA /\ [][NextTWA]_vars

\* every runnable thread is eventually scheduled
FairSpecTWA ==
    /\ InitTWA /\ [][NextTWA]_vars
    /\ WF_vars(TWA_Main)
    /\ \A w \in ThreadIdx : WF_vars(TWA_Routine(w))

\* ------------------------------------ createThreadsAndRun, ThreadsWithMutex.c
\* variant of MX_Enter that goes on without acquiring the mutex
MX_Enter_nolock(t) ==
    /\ mx_pc # "crashed" /\ mx_tpc[t] = "lock"
    /\ mx_tpc' = [mx_tpc EXCEPT ![t] = "loop"]
    /\ UNCHANGED <<mx_others, mx_pc, use_mutex, counter, mx_lock, mx_i, mx_reg,
                   mx_k, mx_printed, mx_ret>>

\* lines 68-71: pthread_mutex_lock when use_mutex is set.  On a mutex that
\* createThreadsAndRun has destroyed the call is undefined: it fails (the
\* result is not tested) or acquires the mutex as if it were still there.
MX_Enter(t) ==
    /\ mx_pc # "crashed" /\ mx_tpc[t] = "lock"
    /\ IF use_mutex # 0
       THEN \/ /\ mx_lock.owner = NoThread
               /\ mx_lock' = [mx_lock EXCEPT !.owner = t]
            \/ /\ mx_lock.state = "destroyed"
               /\ UNCHANGED mx_lock
       ELSE UNCHANGED mx_lock
    /\ mx_tpc' = [mx_tpc EXCEPT ![t] = "loop"]
    /\ UNCHANGED <<mx_others, mx_pc, use_mutex, counter, mx_i, mx_reg, mx_k,
                   mx_printed, mx_ret>>

\* lines 73-75: the loop test and the fetch of *p_cnt into a register
MX_Fetch(t) ==
    /\ mx_pc # "crashed" /\ mx_tpc[t] = "loop"
    /\ IF mx_k[t] < NUMBER_OF_INCREMENTS
       THEN /\ mx_reg' = [mx_reg EXCEPT ![t] = counter]
            /\ mx_tpc' = [mx_tpc EXCEPT ![t] = "store"]
       ELSE /\ mx_tpc' = [mx_tpc EXCEPT ![t] = "unlock"]
            /\ UNCHANGED mx_reg
    /\ UNCHANGED <<mx_others, mx_pc, use_mutex, counter, mx_lock, mx_i, mx_k,
                   mx_printed, mx_ret>>

\* variant of MX_Store that adds two to the fetched value
MX_Store_plusTwo(t) ==
    /\ mx_pc # "crashed" /\ mx_tpc[t] = "store"
    /\ counter' = mx_reg[t] + 2
    /\ mx_k' = [mx_k EXCEPT ![t] = @ + 1]
    /\ mx_tpc' = [mx_tpc EXCEPT ![t] = "loop"]
    /\ UNCHANGED <<mx_others, mx_pc, use_mutex, mx_lock, mx_i, mx_reg, mx_printed,
                   mx_ret>>

\* line 75: the incremented register is stored back, then i++
MX_Store(t) ==
    /\ mx_pc # "crashed" /\ mx_tpc[t] = "store"
    /\ counter' = mx_reg[t] + 1
    /\ mx_k' = [mx_k EXCEPT ![t] = @ + 1]
    /\ mx_tpc' = [mx_tpc EXCEPT ![t] = "loop"]
    /\ UNCHANGED <<mx_others, mx_pc, use_mutex, mx_lock, mx_i, mx_reg, mx_printed,
                   mx_ret>>

\* lines 79-82: pthread_mutex_unlock when use_mutex is set, and return
MX_Exit(t) ==
    /\ mx_pc # "crashed" /\ mx_tpc[t] = "unlock"
    /\ mx_lock' = IF use_mutex # 0 /\ mx_lock.owner = t
                  THEN [mx_lock EXCEPT !.owner = NoThread]
                  ELSE mx_lock
    /\ mx_tpc' = [mx_tpc EXCEPT ![t] = "terminated"]
    /\ UNCHANGED <<mx_others, mx_pc, use_mutex, counter, mx_i, mx_reg, mx_k,
                   mx_printed, mx_ret>>

\* lines 87-91: counter = 0 and, when use_mutex is set, pthread_mutex_init
MX_Init ==
    /\ mx_pc = "init"
    /\ counter' = 0
    /\ mx_lock' = IF use_mutex # 0 THEN [state |-> "init", owner |-> NoThread]
                  ELSE mx_lock
    /\ mx_i' = 0
    /\ mx_pc' = "create"
    /\ UNCHANGED <<mx_others, use_mutex, mx_tpc, mx_reg, mx_k, mx_printed, mx_ret>>

\* lines 95-104: one evaluation of the creation loop; a failed pthread_create
\* destroys the mutex and returns -1
MX_Create ==
    /\ mx_pc = "create"
    /\ IF mx_i < MutexThreads
       THEN \E status \in CreateResults :
               IF checkThreadCreationStatus(status) # 0
               THEN /\ mx_lock' = IF use_mutex # 0
                                  THEN [mx_lock EXCEPT !.state = "destroyed"]
                                  ELSE mx_lock
                    /\ mx_ret' = 0 - 1
                    /\ mx_pc' = "returned"
                    /\ UNCHANGED <<mx_i, mx_tpc>>
               ELSE /\ mx_tpc' = [mx_tpc EXCEPT ![mx_i] = "lock"]
                    /\ mx_i' = mx_i + 1
                    /\ UNCHANGED <<mx_pc, mx_lock, mx_ret>>
       ELSE /\ mx_pc' = "join"
            /\ mx_i' = 0
            /\ UNCHANGED <<mx_lock, mx_ret, mx_tpc>>
    /\ UNCHANGED <<mx_others, use_mutex, counter, mx_reg, mx_k, mx_printed>>

\* lines 106-107: one evaluation of the join loop
MX_Join ==
    /\ mx_pc = "join"
    /\ IF mx_i < MutexThreads
       THEN /\ mx_tpc[mx_i] = "terminated"
            /\ mx_tpc' = [mx_tpc EXCEPT ![mx_i] = "joined"]
            /\ mx_i' = mx_i + 1
            /\ UNCHANGED mx_pc
       ELSE /\ mx_pc' = "print"
            /\ UNCHANGED <<mx_tpc, mx_i>>
    /\ UNCHANGED <<mx_others, use_mutex, counter, mx_lock, mx_reg, mx_k, mx_printed,
                   mx_ret>>

\* lines 109-117: the counter is printed, the mutex destroyed, 0 returned
MX_Finish ==
    /\ mx_pc = "print"
    /\ mx_printed' = counter
    /\ mx_lock' = IF use_mutex # 0 THEN [mx_lock EXCEPT !.state = "destroyed"]
                  ELSE mx_lock
    /\ mx_ret' = 0
    /\ mx_pc' = "returned"
    /\ UNCHANGED <<mx_others, use_mutex, counter, mx_i, mx_tpc, mx_reg, mx_k>>

MX_Main ==
    \/ MX_Init
    \/ MX_Create
    \/ MX_Join
    \/ MX_Finish

incrementFunction(t) ==
    \/ MX_Enter(t)
    \/ MX_Fetch(t)
    \/ MX_Store(t)
    \/ MX_Exit(t)

NextMutex == MX_Main \/ \E t \in MxThreads : incrementFunction(t)

\* lines 123-128: createThreadsAndRun is called with use_mutex 0 and with 1
InitMutex ==
    /\ EngineIdle /\ DmIdle /\ PopIdle /\ TwaIdle
    /\ BarIdle /\ CvIdle /\ LocksIdle
    /\ mx_pc = "init"
    /\ use_mutex \in {0, 1}
    /\ MxLocals

SpecMutex == InitMutex /\ [][NextMutex]_vars

\* ----------------------------------- threadsWithBarrier, ThreadsWithBarrier.c
\* lines 95-100: the count limit of each thread
counters ==
    [t \in BarThreads |->
        IF t = 0 THEN NUMBER_OF_INCREMENTS_0
        ELSE IF t = 1 THEN NUMBER_OF_INCREMENTS_1
        ELSE NUMBER_OF_INCREMENTS_2]

\* lines 72-81: the counting loop, which ends with dummy_cnt = cab->cnt, and
\* the printf
BAR_Count(t) ==
    /\ bar_tpc[t] = "count"
    /\ dummy_cnt' = [dummy_cnt EXCEPT ![t] = cab[t]]
    /\ bar_tpc' = [bar_tpc EXCEPT ![t] = "arrive"]
    /\ UNCHANGED <<bar_others, bar_pc, bar_i, barrier, cab>>

\* variant of BAR_Arrive whose barrier opens one thread early
BAR_Arrive_oneEarly(t) ==
    /\ bar_tpc[t] = "arrive"
    /\ barrier' =
          IF Cardinality(barrier.waiting) + 2 >= barrier.count
          THEN [barrier EXCEPT !.waiting = {},
                               !.released = @ \cup barrier.waiting \cup {t}]
          ELSE [barrier EXCEPT !.waiting = @ \cup {t}]
    /\ bar_tpc' = [bar_tpc EXCEPT ![t] = "blocked"]
    /\ UNCHANGED <<bar_others, bar_pc, bar_i, cab, dummy_cnt>>

\* line 84, entry of pthread_barrier_wait: the thread is counted; the thread
\* that completes the count opens the barrier for all that wait
BAR_Arrive(t) ==
    /\ bar_tpc[t] = "arrive"
    /\ barrier' =
          IF Cardinality(barrier.waiting) + 1 = barrier.count
          THEN [barrier EXCEPT !.waiting = {},
                               !.released = @ \cup barrier.waiting \cup {t}]
          ELSE [barrier EXCEPT !.waiting = @ \cup {t}]
    /\ bar_tpc' = [bar_tpc EXCEPT ![t] = "blocked"]
    /\ UNCHANGED <<bar_others, bar_pc, bar_i, cab, dummy_cnt>>

\* line 84, return of pthread_barrier_wait once the barrier has opened
BAR_Pass(t) ==
    /\ bar_tpc[t] = "blocked"
    /\ t \in barrier.released
    /\ barrier' = [barrier EXCEPT !.released = @ \ {t}]
    /\ bar_tpc' = [bar_tpc EXCEPT ![t] = "after"]
    /\ UNCHANGED <<bar_others, bar_pc, bar_i, cab, dummy_cnt>>

\* lines 86-88: the printf after the barrier, and return
BAR_Return(t) ==
    /\ bar_tpc[t] = "after"
    /\ bar_tpc' = [bar_tpc EXCEPT ![t] = "terminated"]
    /\ UNCHANGED <<bar_others, bar_pc, bar_i, barrier, cab, dummy_cnt>>

\* line 109: pthread_barrier_init with count NUMBER_OF_THREADS
BAR_Init ==
    /\ bar_pc = "init"
    /\ barrier' = [state |-> "init", count |-> BarrierThreads, waiting |-> {},
                   released |-> {}]
    /\ bar_i' = 0
    /\ bar_pc' = "create"
    /\ UNCHANGED <<bar_others, cab, bar_tpc, dummy_cnt>>

\* lines 111-119: one evaluation of the creation loop; a failed
\* pthread_create returns at once
BAR_Create ==
    /\ bar_pc = "create"
    /\ IF bar_i < BarrierThreads
       THEN /\ cab' = [cab EXCEPT ![bar_i] = counters[bar_i]]
            /\ \E status \in CreateResults :
                  IF checkThreadCreationStatus(status) # 0
                  THEN /\ bar_pc' = "returned"
                       /\ UNCHANGED <<bar_i, bar_tpc>>
                  ELSE /\ bar_tpc' = [bar_tpc EXCEPT ![bar_i] = "count"]
                       /\ bar_i' = bar_i + 1
                       /\ UNCHANGED bar_pc
       ELSE /\ bar_pc' = "join"
            /\ bar_i' = 0
            /\ UNCHANGED <<cab, bar_tpc>>
    /\ UNCHANGED <<bar_others, barrier, dummy_cnt>>

\* lines 121-122: one evaluation of the join loop, then the return
BAR_Join ==
    /\ bar_pc = "join"
    /\ IF bar_i < BarrierThreads
       THEN /\ bar_tpc[bar_i] = "terminated"
            /\ bar_tpc' = [bar_tpc EXCEPT ![bar_i] = "joined"]
            /\ bar_i' = bar_i + 1
            /\ UNCHANGED bar_pc
       ELSE /\ bar_pc' = "returned"
            /\ UNCHANGED <<bar_tpc, bar_i>>
    /\ UNCHANGED <<bar_others, barrier, cab, dummy_cnt>>

BAR_Main ==
    \/ BAR_Init
    \/ BAR_Create
    \/ BAR_Join

countUntilLimit(t) ==
    \/ BAR_Count(t)
    \/ BAR_Arrive(t)
    \/ BAR_Pass(t)
    \/ BAR_Return(t)

NextBarrier == BAR_Main \/ \E t \in BarThreads : countUntilLimit(t)

InitBarrier ==
    /\ EngineIdle /\ DmIdle /\ PopIdle /\ TwaIdle
    /\ MxIdle /\ CvIdle /\ LocksIdle
    /\ bar_pc = "init"
    /\ BarLocals

SpecBarrier == InitBarrier /\ [][NextBarrier]_vars

\* every runnable thread is eventually scheduled
FairSpecBarrier ==
    /\ InitBarrier /\ [][NextBarrier]_vars
    /\ WF_vars(BAR_Main)
    /\ \A t \in BarThreads : WF_vars(countUntilLimit(t))

\* ------------- threadsWithConditionVariables, ThreadsWithConditionVariables.c
\* lines 82-85: the consumer makes itself cancellable (deferred)
CONS_SetCancel ==
    /\ cons_pc = "setcancel"
    /\ cons_pc' = "lock"
    /\ UNCHANGED <<cv_others, cv_pc, mutex_lock, full_cond, prod_pc, cons_i, prod_i,
                   cv_cancel, lost_signals>>

\* lines 87-92: pthread_mutex_lock, printf
CONS_Lock ==
    /\ cons_pc = "lock"
    /\ mutex_lock.owner = Nobody
    /\ mutex_lock' = [mutex_lock EXCEPT !.owner = Consumer]
    /\ cons_pc' = "wait"
    /\ UNCHANGED <<cv_others, cv_pc, full_cond, prod_pc, cons_i, prod_i, cv_cancel,
                   lost_signals>>

\* line 96, entry of pthread_cond_wait: the mutex is released and the thread
\* blocks on the condition variable
CONS_Wait ==
    /\ cons_pc = "wait"
    /\ mutex_lock' = [mutex_lock EXCEPT !.owner = Nobody]
    /\ full_cond' = [full_cond EXCEPT !.waiters = @ \cup {Consumer}]
    /\ cons_pc' = "waiting"
    /\ UNCHANGED <<cv_others, cv_pc, prod_pc, cons_i, prod_i, cv_cancel, lost_signals>>

\* line 96, return of pthread_cond_wait after a signal: the mutex is
\* reacquired; line 99: i = BUFFER_SIZE
CONS_Wake ==
    /\ cons_pc = "waiting"
    /\ Consumer \notin full_cond.waiters
    /\ mutex_lock.owner = Nobody
    /\ mutex_lock' = [mutex_lock EXCEPT !.owner = Consumer]
    /\ cons_i' = BUFFER_SIZE
    /\ cons_pc' = "consume"
    /\ UNCHANGED <<cv_others, cv_pc, full_cond, prod_pc, prod_i, cv_cancel, lost_signals>>

\* line 96: pthread_cond_wait may also return without a signal (spurious
\* wakeup); the code does not test a predicate afterwards
CONS_SpuriousWake ==
    /\ cons_pc = "waiting"
    /\ Consumer \in full_cond.waiters
    /\ mutex_lock.owner = Nobody
    /\ full_cond' = [full_cond EXCEPT !.waiters = @ \ {Consumer}]
    /\ mutex_lock' = [mutex_lock EXCEPT !.owner = Consumer]
    /\ cons_i' = BUFFER_SIZE
    /\ cons_pc' = "consume"
    /\ UNCHANGED <<cv_others, cv_pc, prod_pc, prod_i, cv_cancel, lost_signals>>

\* lines 99-114: one evaluation of the consuming loop
CONS_Consume ==
    /\ cons_pc = "consume"
    /\ IF cons_i >= 1
       THEN /\ cons_i' = cons_i - 1
            /\ UNCHANGED cons_pc
       ELSE /\ cons_pc' = "unlock"
            /\ UNCHANGED cons_i
    /\ UNCHANGED <<cv_others, cv_pc, mutex_lock, full_cond, prod_pc, prod_i, cv_cancel,
                   lost_signals>>

\* lines 116-118: pthread_mutex_unlock and return
CONS_Unlock ==
    /\ cons_pc = "unlock"
    /\ mutex_lock' = [mutex_lock EXCEPT !.owner = Nobody]
    /\ cons_pc' = "terminated"
    /\ UNCHANGED <<cv_others, cv_pc, full_cond, prod_pc, cons_i, prod_i, cv_cancel,
                   lost_signals>>

\* a pending cancellation request is acted upon at a cancellation point
\* (printf, pthread_cond_wait, sleep); inside pthread_cond_wait the mutex is
\* reacquired first
CONS_Cancelled ==
    /\ cv_cancel
    /\ \/ /\ cons_pc \in {"wait", "consume"}
          /\ UNCHANGED <<mutex_lock, full_cond>>
       \/ /\ cons_pc = "waiting"
          /\ mutex_lock.owner = Nobody
          /\ mutex_lock' = [mutex_lock EXCEPT !.owner = Consumer]
          /\ full_cond' = [full_cond EXCEPT !.waiters = @ \ {Consumer}]
    /\ cons_pc' = "cancelled"
    /\ UNCHANGED <<cv_others, cv_pc, prod_pc, cons_i, prod_i, cv_cancel, lost_signals>>

\* lines 124-127: the producer makes itself cancellable (deferred)
PROD_SetCancel ==
    /\ prod_pc = "setcancel"
    /\ prod_pc' = "lock"
    /\ UNCHANGED <<cv_others, cv_pc, mutex_lock, full_cond, cons_pc, cons_i, prod_i,
                   cv_cancel, lost_signals>>

\* lines 130-133: pthread_mutex_lock; i = 1
PROD_Lock ==
    /\ prod_pc = "lock"
    /\ mutex_lock.owner = Nobody
    /\ mutex_lock' = [mutex_lock EXCEPT !.owner = Producer]
    /\ prod_i' = 1
    /\ prod_pc' = "produce"
    /\ UNCHANGED <<cv_others, cv_pc, full_cond, cons_pc, cons_i, cv_cancel, lost_signals>>

\* lines 133-149: one evaluation of the producing loop
PROD_Produce ==
    /\ prod_pc = "produce"
    /\ IF prod_i <= BUFFER_SIZE
       THEN /\ prod_i' = prod_i + 1
            /\ UNCHANGED prod_pc
       ELSE /\ prod_pc' = "signal"
            /\ UNCHANGED prod_i
    /\ UNCHANGED <<cv_others, cv_pc, mutex_lock, full_cond, cons_pc, cons_i, cv_cancel,
                   lost_signals>>

\* line 151: pthread_cond_signal wakes a thread blocked on the condition
\* variable, and has no effect when there is none
PROD_Signal ==
    /\ prod_pc = "signal"
    /\ IF full_cond.waiters # {}
       THEN /\ full_cond' = [full_cond EXCEPT !.waiters = @ \ {Consumer}]
            /\ UNCHANGED lost_signals
       ELSE /\ lost_signals' = lost_signals + 1
            /\ UNCHANGED full_cond
    /\ prod_pc' = "unlock"
    /\ UNCHANGED <<cv_others, cv_pc, mutex_lock, cons_pc, cons_i, prod_i, cv_cancel>>

\* lines 154-156: pthread_mutex_unlock and return
PROD_Unlock ==
    /\ prod_pc = "unlock"
    /\ mutex_lock' = [mutex_lock EXCEPT !.owner = Nobody]
    /\ prod_pc' = "terminated"
    /\ UNCHANGED <<cv_others, cv_pc, full_cond, cons_pc, cons_i, prod_i, cv_cancel,
                   lost_signals>>

\* lines 168-179: initialisation of the mutex and the condition variable, and
\* creation of the consumer
CV_CreateConsumer ==
    /\ cv_pc = "create_consumer"
    /\ mutex_lock' = [state |-> "init", owner |-> Nobody]
    /\ full_cond' = [state |-> "init", waiters |-> {}]
    /\ \E status \in CreateResults :
          IF checkThreadCreationStatus(status) # 0
          THEN /\ cv_pc' = "returned"
               /\ UNCHANGED cons_pc
          ELSE /\ cons_pc' = "setcancel"
               /\ cv_pc' = "sleep"
    /\ UNCHANGED <<cv_others, prod_pc, cons_i, prod_i, cv_cancel, lost_signals>>

\* line 182: sleep(1); time passes, which orders nothing
CV_Sleep ==
    /\ cv_pc = "sleep"
    /\ cv_pc' = "create_producer"
    /\ UNCHANGED <<cv_others, mutex_lock, full_cond, cons_pc, prod_pc, cons_i, prod_i,
                   cv_cancel, lost_signals>>

\* lines 184-189: creation of the producer; on failure the consumer is sent a
\* cancellation request and the function returns
CV_CreateProducer ==
    /\ cv_pc = "create_producer"
    /\ \E status \in CreateResults :
          IF checkThreadCreationStatus(status) # 0
          THEN /\ cv_cancel' = TRUE
               /\ cv_pc' = "returned"
               /\ UNCHANGED prod_pc
          ELSE /\ prod_pc' = "setcancel"
               /\ cv_pc' = "join_consumer"
               /\ UNCHANGED cv_cancel
    /\ UNCHANGED <<cv_others, mutex_lock, full_cond, cons_pc, cons_i, prod_i,
                   lost_signals>>

\* line 192: pthread_join(consumer_thread)
CV_JoinConsumer ==
    /\ cv_pc = "join_consumer"
    /\ cons_pc = "terminated"
    /\ cons_pc' = "joined"
    /\ cv_pc' = "join_producer"
    /\ UNCHANGED <<cv_others, mutex_lock, full_cond, prod_pc, cons_i, prod_i, cv_cancel,
                   lost_signals>>

\* line 193: pthread_join(producer_thread)
CV_JoinProducer ==
    /\ cv_pc = "join_producer"
    /\ prod_pc = "terminated"
    /\ prod_pc' = "joined"
    /\ cv_pc' = "destroy"
    /\ UNCHANGED <<cv_others, mutex_lock, full_cond, cons_pc, cons_i, prod_i, cv_cancel,
                   lost_signals>>

\* lines 196-197: the mutex and the condition variable are destroyed
CV_Destroy ==
    /\ cv_pc = "destroy"
    /\ mutex_lock' = [mutex_lock EXCEPT !.state = "destroyed"]
    /\ full_cond' = [full_cond EXCEPT !.state = "destroyed"]
    /\ cv_pc' = "returned"
    /\ UNCHANGED <<cv_others, cons_pc, prod_pc, cons_i, prod_i, cv_cancel,
                   lost_signals>>

CV_Main ==
    \/ CV_CreateConsumer
    \/ CV_Sleep
    \/ CV_CreateProducer
    \/ CV_JoinConsumer
    \/ CV_JoinProducer
    \/ CV_Destroy

consumerRoutine ==
    \/ CONS_SetCancel
    \/ CONS_Lock
    \/ CONS_Wait
    \/ CONS_Wake
    \/ CONS_Consume
    \/ CONS_Unlock

producerRoutine ==
    \/ PROD_SetCancel
    \/ PROD_Lock
    \/ PROD_Produce
    \/ PROD_Signal
    \/ PROD_Unlock

NextCond ==
    \/ CV_Main
    \/ consumerRoutine
    \/ producerRoutine
    \/ CONS_SpuriousWake
    \/ CONS_Cancelled

InitCond ==
    /\ EngineIdle /\ DmIdle /\ PopIdle /\ TwaIdle
    /\ MxIdle /\ BarIdle /\ LocksIdle
    /\ cv_pc = "create_consumer"
    /\ CvLocals

SpecCond == InitCond /\ [][NextCond]_vars

\* every runnable thread is eventually scheduled; a wakeup without a signal
\* and the handling of a cancellation request are not promised
FairSpecCond ==
    /\ InitCond /\ [][NextCond]_vars
    /\ WF_vars(CV_Main)
    /\ WF_vars(consumerRoutine)
    /\ WF_vars(producerRoutine)

\* ------------- functionUsingThreadWithTimedMutex, ThreadCreationStatus.c
\* lines 297-301 and 307-317: thread A keeps the order of the two mutexes,
\* thread B exchanges them
m_1(t) == IF t = "A" THEN 1 ELSE 2
m_2(t) == IF t = "A" THEN 2 ELSE 1

\* variant of TM_GiveUp that returns with the first mutex still locked
TM_GiveUp_keep(t) ==
    /\ tm_tpc[t] = "give_up"
    /\ tm_tpc' = [tm_tpc EXCEPT ![t] = "terminated"]
    /\ UNCHANGED <<tm_others, tm_pc, tm_mutex, tm_ret>>

\* lines 295-301 and 305-317: threadARoutine and threadBRoutine copy the
\* shared record, set their colour and time offset and enter the common routine
TM_Enter(t) ==
    /\ tm_tpc[t] = "entered"
    /\ tm_tpc' = [tm_tpc EXCEPT ![t] = "lock_m_1"]
    /\ UNCHANGED <<tm_others, tm_pc, tm_mutex, tm_ret>>

\* lines 254-264: the first lockTimedMutex. pthread_mutex_timedlock takes a
\* free mutex; while another thread holds it the deadline may pass, and the
\* routine then returns holding nothing
TM_LockFirst(t) ==
    /\ tm_tpc[t] = "lock_m_1"
    /\ IF tm_mutex[m_1(t)].owner = Nobody
       THEN /\ tm_mutex' = [tm_mutex EXCEPT ![m_1(t)].owner = t]
            /\ tm_ret' = [tm_ret EXCEPT ![t][1] = 0]
            /\ tm_tpc' = [tm_tpc EXCEPT ![t] = "work"]
       ELSE /\ tm_ret' = [tm_ret EXCEPT ![t][1] = ETIMEDOUT]
            /\ tm_tpc' = [tm_tpc EXCEPT ![t] = "terminated"]
            /\ UNCHANGED tm_mutex
    /\ UNCHANGED <<tm_others, tm_pc>>

\* line 267: sleep(work_time)
TM_Work(t) ==
    /\ tm_tpc[t] = "work"
    /\ tm_tpc' = [tm_tpc EXCEPT ![t] = "lock_m_2"]
    /\ UNCHANGED <<tm_others, tm_pc, tm_mutex, tm_ret>>

\* lines 270-279: the second lockTimedMutex
TM_LockSecond(t) ==
    /\ tm_tpc[t] = "lock_m_2"
    /\ IF tm_mutex[m_2(t)].owner = Nobody
       THEN /\ tm_mutex' = [tm_mutex EXCEPT ![m_2(t)].owner = t]
            /\ tm_ret' = [tm_ret EXCEPT ![t][2] = 0]
            /\ tm_tpc' = [tm_tpc EXCEPT ![t] = "unlock_m_1"]
       ELSE /\ tm_ret' = [tm_ret EXCEPT ![t][2] = ETIMEDOUT]
            /\ tm_tpc' = [tm_tpc EXCEPT ![t] = "give_up"]
            /\ UNCHANGED tm_mutex
    /\ UNCHANGED <<tm_others, tm_pc>>

\* lines 280-283: the second lock failed; the first mutex is unlocked and
\* the routine returns
TM_GiveUp(t) ==
    /\ tm_tpc[t] = "give_up"
    /\ tm_mutex' = [tm_mutex EXCEPT ![m_1(t)].owner = Nobody]
    /\ tm_tpc' = [tm_tpc EXCEPT ![t] = "terminated"]
    /\ UNCHANGED <<tm_others, tm_pc, tm_ret>>

\* lines 285-287: printf and pthread_mutex_unlock(m_1)
TM_UnlockFirst(t) ==
    /\ tm_tpc[t] = "unlock_m_1"
    /\ tm_mutex' = [tm_mutex EXCEPT ![m_1(t)].owner = Nobody]
    /\ tm_tpc' = [tm_tpc EXCEPT ![t] = "unlock_m_2"]
    /\ UNCHANGED <<tm_others, tm_pc, tm_ret>>

\* lines 288-290: pthread_mutex_unlock(m_2) and return
TM_UnlockSecond(t) ==
    /\ tm_tpc[t] = "unlock_m_2"
    /\ tm_mutex' = [tm_mutex EXCEPT ![m_2(t)].owner = Nobody]
    /\ tm_tpc' = [tm_tpc EXCEPT ![t] = "terminated"]
    /\ UNCHANGED <<tm_others, tm_pc, tm_ret>>

\* lines 330-337: both mutexes are initialised
TM_Init ==
    /\ tm_pc = "init"
    /\ tm_mutex' = [m \in TmMutexes |-> [state |-> "init", owner |-> Nobody]]
    /\ tm_pc' = "create_A"
    /\ UNCHANGED <<tm_others, tm_tpc, tm_ret>>

\* lines 340-341: creation of thread A
TM_CreateA ==
    /\ tm_pc = "create_A"
    /\ \E status \in CreateResults :
          IF checkThreadCreationStatus(status) # 0
          THEN /\ tm_pc' = "returned"
               /\ UNCHANGED tm_tpc
          ELSE /\ tm_tpc' = [tm_tpc EXCEPT !["A"] = "entered"]
               /\ tm_pc' = "create_B"
    /\ UNCHANGED <<tm_others, tm_mutex, tm_ret>>

\* lines 343-347: creation of thread B; on failure thread A is joined
TM_CreateB ==
    /\ tm_pc = "create_B"
    /\ \E status \in CreateResults :
          IF checkThreadCreationStatus(status) # 0
          THEN /\ tm_pc' = "join_A_return"
               /\ UNCHANGED tm_tpc
          ELSE /\ tm_tpc' = [tm_tpc EXCEPT !["B"] = "entered"]
               /\ tm_pc' = "join_A"
    /\ UNCHANGED <<tm_others, tm_mutex, tm_ret>>

\* lines 345-346: pthread_join(t_A) and return
TM_JoinAReturn ==
    /\ tm_pc = "join_A_return"
    /\ tm_tpc["A"] = "terminated"
    /\ tm_tpc' = [tm_tpc EXCEPT !["A"] = "joined"]
    /\ tm_pc' = "returned"
    /\ UNCHANGED <<tm_others, tm_mutex, tm_ret>>

\* line 349: pthread_join(t_A)
TM_JoinA ==
    /\ tm_pc = "join_A"
    /\ tm_tpc["A"] = "terminated"
    /\ tm_tpc' = [tm_tpc EXCEPT !["A"] = "joined"]
    /\ tm_pc' = "join_B"
    /\ UNCHANGED <<tm_others, tm_mutex, tm_ret>>

\* line 350: pthread_join(t_B)
TM_JoinB ==
    /\ tm_pc = "join_B"
    /\ tm_tpc["B"] = "terminated"
    /\ tm_tpc' = [tm_tpc EXCEPT !["B"] = "joined"]
    /\ tm_pc' = "destroy"
    /\ UNCHANGED <<tm_others, tm_mutex, tm_ret>>

\* lines 352-353: both mutexes are destroyed
TM_Destroy ==
    /\ tm_pc = "destroy"
    /\ tm_mutex' = [m \in TmMutexes |-> [tm_mutex[m] EXCEPT !.state = "destroyed"]]
    /\ tm_pc' = "returned"
    /\ UNCHANGED <<tm_others, tm_tpc, tm_ret>>

TM_Main ==
    \/ TM_Init
    \/ TM_CreateA
    \/ TM_CreateB
    \/ TM_JoinAReturn
    \/ TM_JoinA
    \/ TM_JoinB
    \/ TM_Destroy

generalThreadRoutine(t) ==
    \/ TM_Enter(t)
    \/ TM_LockFirst(t)
    \/ TM_Work(t)
    \/ TM_LockSecond(t)
    \/ TM_GiveUp(t)
    \/ TM_UnlockFirst(t)
    \/ TM_UnlockSecond(t)

NextTimed == TM_Main \/ \E t \in TmThreads : generalThreadRoutine(t)

InitTimed ==
    /\ EngineIdle /\ DmIdle /\ PopIdle /\ TwaIdle
    /\ MxIdle /\ BarIdle /\ CvIdle /\ SemIdle /\ TlIdle
    /\ tm_pc = "init"
    /\ TmLocals

SpecTimed == InitTimed /\ [][NextTimed]_vars

\* every runnable thread is eventually scheduled, and a timed lock returns
\* by its deadline
FairSpecTimed ==
    /\ InitTimed /\ [][NextTimed]_vars
    /\ WF_vars(TM_Main)
    /\ \A t \in TmThreads : WF_vars(generalThreadRoutine(t))

\* ------------------------------- threadsWithTryLock, ThreadsWithTryLock.c
\* variant of TL_TryLock that takes the mutex whoever holds it
TL_TryLock_always(t) ==
    /\ tl_tpc[t] = "trylock"
    /\ tl_mutex' = [tl_mutex EXCEPT !.owner = t]
    /\ tl_ret' = [tl_ret EXCEPT ![t] = 0]
    /\ tl_tpc' = [tl_tpc EXCEPT ![t] = "locked"]
    /\ UNCHANGED <<tl_others, tl_pc>>

\* lines 52-55: the thread starts and takes the mutex's address from its argument
TL_Enter(t) ==
    /\ tl_tpc[t] = "entered"
    /\ tl_tpc' = [tl_tpc EXCEPT ![t] = "trylock"]
    /\ UNCHANGED <<tl_others, tl_pc, tl_mutex, tl_ret>>

\* line 57: pthread_mutex_trylock takes a free mutex and returns 0; on a
\* mutex somebody holds it returns EBUSY at once
TL_TryLock(t) ==
    /\ tl_tpc[t] = "trylock"
    /\ IF tl_mutex.owner = NoThread
       THEN /\ tl_mutex' = [tl_mutex EXCEPT !.owner = t]
            /\ tl_ret' = [tl_ret EXCEPT ![t] = 0]
            /\ tl_tpc' = [tl_tpc EXCEPT ![t] = "locked"]
       ELSE /\ tl_ret' = [tl_ret EXCEPT ![t] = EBUSY]
            /\ tl_tpc' = [tl_tpc EXCEPT ![t] = "busy"]
            /\ UNCHANGED tl_mutex
    /\ UNCHANGED <<tl_others, tl_pc>>

\* lines 59-67: ret != 0: the failure is printed
TL_Busy(t) ==
    /\ tl_tpc[t] = "busy"
    /\ tl_ret[t] # 0
    /\ tl_tpc' = [tl_tpc EXCEPT ![t] = "busy_return"]
    /\ UNCHANGED <<tl_others, tl_pc, tl_mutex, tl_ret>>

\* line 69: return NULL
TL_BusyReturn(t) ==
    /\ tl_tpc[t] = "busy_return"
    /\ tl_tpc' = [tl_tpc EXCEPT ![t] = "terminated"]
    /\ UNCHANGED <<tl_others, tl_pc, tl_mutex, tl_ret>>

\* lines 72-77: ret == 0: the success is printed
TL_Locked(t) ==
    /\ tl_tpc[t] = "locked"
    /\ tl_ret[t] = 0
    /\ tl_tpc' = [tl_tpc EXCEPT ![t] = "work"]
    /\ UNCHANGED <<tl_others, tl_pc, tl_mutex, tl_ret>>

\* line 79: sleep(DEFAULT_WORK_TIME)
TL_Work(t) ==
    /\ tl_tpc[t] = "work"
    /\ tl_ret[t] = 0
    /\ tl_tpc' = [tl_tpc EXCEPT ![t] = "unlock"]
    /\ UNCHANGED <<tl_others, tl_pc, tl_mutex, tl_ret>>

\* line 82: pthread_mutex_unlock
TL_Unlock(t) ==
    /\ tl_tpc[t] = "unlock"
    /\ tl_mutex' = [tl_mutex EXCEPT !.owner = NoThread]
    /\ tl_tpc' = [tl_tpc EXCEPT ![t] = "return"]
    /\ UNCHANGED <<tl_others, tl_pc, tl_ret>>

\* lines 84-86: printf and return
TL_Return(t) ==
    /\ tl_tpc[t] = "return"
    /\ tl_tpc' = [tl_tpc EXCEPT ![t] = "terminated"]
    /\ UNCHANGED <<tl_others, tl_pc, tl_mutex, tl_ret>>

\* line 96: pthread_mutex_init
TL_Init ==
    /\ tl_pc = "init"
    /\ tl_mutex' = [state |-> "init", owner |-> NoThread]
    /\ tl_pc' = "create_0"
    /\ UNCHANGED <<tl_others, tl_tpc, tl_ret>>

\* lines 99-100: creation of t_0
TL_Create0 ==
    /\ tl_pc = "create_0"
    /\ \E status \in CreateResults :
          IF checkThreadCreationStatus(status) # 0
          THEN /\ tl_pc' = "returned"
               /\ UNCHANGED tl_tpc
          ELSE /\ tl_tpc' = [tl_tpc EXCEPT ![0] = "entered"]
               /\ tl_pc' = "create_1"
    /\ UNCHANGED <<tl_others, tl_mutex, tl_ret>>

\* lines 102-106: creation of t_1; on failure t_0 is joined
TL_Create1 ==
    /\ tl_pc = "create_1"
    /\ \E status \in CreateResults :
          IF checkThreadCreationStatus(status) # 0
          THEN /\ tl_pc' = "join_0_return"
               /\ UNCHANGED tl_tpc
          ELSE /\ tl_tpc' = [tl_tpc EXCEPT ![1] = "entered"]
               /\ tl_pc' = "join_0"
    /\ UNCHANGED <<tl_others, tl_mutex, tl_ret>>

\* lines 104-105: pthread_join(t_0) and return
TL_Join0Return ==
    /\ tl_pc = "join_0_return"
    /\ tl_tpc[0] = "terminated"
    /\ tl_tpc' = [tl_tpc EXCEPT ![0] = "joined"]
    /\ tl_pc' = "returned"
    /\ UNCHANGED <<tl_others, tl_mutex, tl_ret>>

\* line 108: pthread_join(t_0)
TL_Join0 ==
    /\ tl_pc = "join_0"
    /\ tl_tpc[0] = "terminated"
    /\ tl_tpc' = [tl_tpc EXCEPT ![0] = "joined"]
    /\ tl_pc' = "join_1"
    /\ UNCHANGED <<tl_others, tl_mutex, tl_ret>>

\* line 109: pthread_join(t_1)
TL_Join1 ==
    /\ tl_pc = "join_1"
    /\ tl_tpc[1] = "terminated"
    /\ tl_tpc' = [tl_tpc EXCEPT ![1] = "joined"]
    /\ tl_pc' = "destroy"
    /\ UNCHANGED <<tl_others, tl_mutex, tl_ret>>

\* line 111: pthread_mutex_destroy
TL_Destroy ==
    /\ tl_pc = "destroy"
    /\ tl_mutex' = [tl_mutex EXCEPT !.state = "destroyed"]
    /\ tl_pc' = "returned"
    /\ UNCHANGED <<tl_others, tl_tpc, tl_ret>>

TL_Main ==
    \/ TL_Init
    \/ TL_Create0
    \/ TL_Create1
    \/ TL_Join0Return
    \/ TL_Join0
    \/ TL_Join1
    \/ TL_Destroy

threadsWithTryLockRoutine(t) ==
    \/ TL_Enter(t)
    \/ TL_TryLock(t)
    \/ TL_Busy(t)
    \/ TL_BusyReturn(t)
    \/ TL_Locked(t)
    \/ TL_Work(t)
    \/ TL_Unlock(t)
    \/ TL_Return(t)

NextTryLock == TL_Main \/ \E t \in TlThreads : threadsWithTryLockRoutine(t)

InitTryLock ==
    /\ EngineIdle /\ DmIdle /\ PopIdle /\ TwaIdle
    /\ MxIdle /\ BarIdle /\ CvIdle /\ TmIdle /\ SemIdle
    /\ tl_pc = "init"
    /\ TlLocals

SpecTryLock == InitTryLock /\ [][NextTryLock]_vars

\* every runnable thread is eventually scheduled
FairSpecTryLock ==
    /\ InitTryLock /\ [][NextTryLock]_vars
    /\ WF_vars(TL_Main)
    /\ \A t \in TlThreads : WF_vars(threadsWithTryLockRoutine(t))

\* --------------------------------------- testCountingSemaphores, part_000
\* variant of SEM_Wait that does not wait for a free slot
SEM_Wait_through(t) ==
    /\ sem_tpc[t] = "sem_wait"
    /\ counting_sem' = [counting_sem EXCEPT !.value = @ - 1]
    /\ sem_tpc' = [sem_tpc EXCEPT ![t] = "sleep"]
    /\ UNCHANGED <<sem_others, sem_pc, sem_i, sem_j, sem_cancel>>

\* lines 158-162: the thread starts and makes itself cancellable (deferred)
SEM_Enter(t) ==
    /\ sem_tpc[t] = "entered"
    /\ sem_tpc' = [sem_tpc EXCEPT ![t] = "sem_wait"]
    /\ UNCHANGED <<sem_others, sem_pc, sem_i, sem_j, counting_sem, sem_cancel>>

\* line 165: sem_wait returns once the value is positive, and decrements it
SEM_Wait(t) ==
    /\ sem_tpc[t] = "sem_wait"
    /\ t \notin sem_cancel
    /\ counting_sem.value > 0
    /\ counting_sem' = [counting_sem EXCEPT !.value = @ - 1]
    /\ sem_tpc' = [sem_tpc EXCEPT ![t] = "sleep"]
    /\ UNCHANGED <<sem_others, sem_pc, sem_i, sem_j, sem_cancel>>

\* line 168: sleep(1)
SEM_Sleep(t) ==
    /\ sem_tpc[t] = "sleep"
    /\ t \notin sem_cancel
    /\ sem_tpc' = [sem_tpc EXCEPT ![t] = "print"]
    /\ UNCHANGED <<sem_others, sem_pc, sem_i, sem_j, counting_sem, sem_cancel>>

\* lines 171-178: sem_getvalue and printf
SEM_Print(t) ==
    /\ sem_tpc[t] = "print"
    /\ sem_tpc' = [sem_tpc EXCEPT ![t] = "sem_post"]
    /\ UNCHANGED <<sem_others, sem_pc, sem_i, sem_j, counting_sem, sem_cancel>>

\* lines 181-183: sem_post increments the value; the routine returns
SEM_Post(t) ==
    /\ sem_tpc[t] = "sem_post"
    /\ counting_sem' = [counting_sem EXCEPT !.value = @ + 1]
    /\ sem_tpc' = [sem_tpc EXCEPT ![t] = "terminated"]
    /\ UNCHANGED <<sem_others, sem_pc, sem_i, sem_j, sem_cancel>>

\* lines 165 and 168: sem_wait and sleep are cancellation points; a thread
\* with a pending request ends there, without posting
SEM_Cancelled(t) ==
    /\ sem_tpc[t] \in {"sem_wait", "sleep"}
    /\ t \in sem_cancel
    /\ sem_tpc' = [sem_tpc EXCEPT ![t] = "cancelled"]
    /\ UNCHANGED <<sem_others, sem_pc, sem_i, sem_j, counting_sem, sem_cancel>>

\* line 207: sem_init(&counting_sem, 0, MAX_COUNTING_SEM_SLOTS)
SEM_Init ==
    /\ sem_pc = "init"
    /\ counting_sem' = [state |-> "init", value |-> MAX_COUNTING_SEM_SLOTS]
    /\ sem_i' = 0
    /\ sem_pc' = "create"
    /\ UNCHANGED <<sem_others, sem_j, sem_tpc, sem_cancel>>

\* lines 209-221: one iteration of the creation loop; a failed pthread_create
\* starts the cancellation of the threads created so far
SEM_Create ==
    /\ sem_pc = "create"
    /\ IF sem_i < MAX_NUM_OF_THREADS
       THEN \E status \in CreateResults :
               IF checkThreadCreationStatus(status) # 0
               THEN /\ sem_j' = sem_i - 1
                    /\ sem_pc' = "cancel"
                    /\ UNCHANGED <<sem_i, sem_tpc>>
               ELSE /\ sem_tpc' = [sem_tpc EXCEPT ![sem_i] = "entered"]
                    /\ sem_i' = sem_i + 1
                    /\ UNCHANGED <<sem_j, sem_pc>>
       ELSE /\ sem_i' = 0
            /\ sem_pc' = "join"
            /\ UNCHANGED <<sem_j, sem_tpc>>
    /\ UNCHANGED <<sem_others, counting_sem, sem_cancel>>

\* lines 216-219: pthread_cancel for j = i - 1 down to 0 (j is a signed int),
\* then return; nothing is joined and the semaphore is not destroyed
SEM_Rollback ==
    /\ sem_pc = "cancel"
    /\ IF sem_j >= 0
       THEN /\ sem_cancel' = sem_cancel \cup {sem_j}
            /\ sem_j' = sem_j - 1
            /\ UNCHANGED sem_pc
       ELSE /\ sem_pc' = "returned"
            /\ UNCHANGED <<sem_j, sem_cancel>>
    /\ UNCHANGED <<sem_others, sem_i, counting_sem, sem_tpc>>

\* lines 223-224: one iteration of the join loop
SEM_Join ==
    /\ sem_pc = "join"
    /\ IF sem_i < MAX_NUM_OF_THREADS
       THEN /\ sem_tpc[sem_i] = "terminated"
            /\ sem_tpc' = [sem_tpc EXCEPT ![sem_i] = "joined"]
            /\ sem_i' = sem_i + 1
            /\ UNCHANGED sem_pc
       ELSE /\ sem_pc' = "destroy"
            /\ UNCHANGED <<sem_i, sem_tpc>>
    /\ UNCHANGED <<sem_others, sem_j, counting_sem, sem_cancel>>

\* line 226: sem_destroy
SEM_Destroy ==
    /\ sem_pc = "destroy"
    /\ counting_sem' = [counting_sem EXCEPT !.state = "destroyed"]
    /\ sem_pc' = "returned"
    /\ UNCHANGED <<sem_others, sem_i, sem_j, sem_tpc, sem_cancel>>

testCountingSemaphores ==
    \/ SEM_Init
    \/ SEM_Create
    \/ SEM_Rollback
    \/ SEM_Join
    \/ SEM_Destroy

countingSemaphoreRoutine(t) ==
    \/ SEM_Enter(t)
    \/ SEM_Wait(t)
    \/ SEM_Sleep(t)
    \/ SEM_Print(t)
    \/ SEM_Post(t)
    \/ SEM_Cancelled(t)

NextSem == testCountingSemaphores \/ \E t \in SemThreads : countingSemaphoreRoutine(t)

InitSem ==
    /\ EngineIdle /\ DmIdle /\ PopIdle /\ TwaIdle
    /\ MxIdle /\ BarIdle /\ CvIdle /\ TmIdle /\ TlIdle
    /\ sem_pc = "init"
    /\ SemLocals

SpecSem == InitSem /\ [][NextSem]_vars

\* every runnable thread is eventually scheduled, and a thread with a pending
\* cancellation request ends at its next cancellation point
FairSpecSem ==
    /\ InitSem /\ [][NextSem]_vars
    /\ WF_vars(testCountingSemaphores)
    /\ \A t \in SemThreads : WF_vars(countingSemaphoreRoutine(t))

\* the earlier variant: its own set-up and release around the same dispatch
\* loop (lines 385-405), join loop (408-409), printing (412-414) and workers
Earlier_Dispatcher ==
    \/ Earlier_CreateMatrices
    \/ Earlier_AllocData
    \/ Dispatch
    \/ Rollback
    \/ Join
    \/ PrintMatrices
    \/ Earlier_Cleanup

NextEarlier == Earlier_Dispatcher \/ \E w \in Workers : Worker(w)

SpecEarlier == Init /\ [][NextEarlier]_vars

\* ------------------------------------------------------------- properties
Spawned == {w \in Workers : pc[w] # "unspawned"}

\* the sequential dot product of row r of A and column c of B, summed from
\* the last term down, on the matrices the generator delivered
RECURSIVE DotProductUpTo(_, _, _)
DotProductUpTo(r, c, k) ==
    IF k = 0 THEN 0
    ELSE (vals_A[r][k - 1] * vals_B[k - 1][c]) + DotProductUpTo(r, c, k - 1)

DotProduct(r, c) == DotProductUpTo(r, c, mat_A_cols)

\* the join loop has joined every worker and C is still allocated
AllJoined == main_pc \in {"print", "cleanup"}

\* C1: once exampleMatrixMultiplication has joined all workers, every cell
\* C[r][c] equals the sequential dot product of row r of A and column c of B,
\* for every explored input and every interleaving of the workers.
C1_ProductAfterJoin ==
    AllJoined =>
        \A r \in 0 .. (mat_A_rows - 1), c \in 0 .. (mat_B_cols - 1) :
            mat_C[r][c] = DotProduct(r, c)

\* a 2 x 2 product with inner dimension 2 has been computed and joined
C1_Witness ==
    /\ main_pc = "print"
    /\ mat_A_rows = 2 /\ mat_A_cols = 2 /\ mat_B_cols = 2
    /\ \A w \in 0 .. 3 : pc[w] = "joined"

\* the work items of the indices below n, as (row, col) pairs
ItemPairs(n) ==
    {<<matrix_mult_data_arr[i].target_row_A, matrix_mult_data_arr[i].target_col_B>> :
        i \in 0 .. (n - 1)}

\* the dispatch loop has run to its end without a failed pthread_create
DispatchDone == main_pc \in {"join", "print", "cleanup"}

\* C2: on the success path the work item of every thread_idx carries
\* (thread_idx / cols_C, thread_idx % cols_C), and the pairs of all work items
\* are exactly [0, rows_C) x [0, cols_C), each pair occurring once.
C2_ItemsBijective ==
    DispatchDone =>
        /\ \A i \in 0 .. (threads_num - 1) :
              /\ matrix_mult_data_arr[i].target_row_A = i \div mat_C_cols
              /\ matrix_mult_data_arr[i].target_col_B = i % mat_C_cols
        /\ ItemPairs(threads_num) = CellsOfC
        /\ \A i \in 0 .. (threads_num - 1), j \in 0 .. (threads_num - 1) :
              (matrix_mult_data_arr[i] = matrix_mult_data_arr[j]) => (i = j)

\* all four work items of a 2 x 2 result have been dispatched
C2_Witness ==
    /\ main_pc = "join"
    /\ mat_C_rows = 2 /\ mat_C_cols = 2
    /\ Cardinality(Spawned) = 4

\* C3: in every reachable state each cell of C that has been written holds
\* the dot product of its own row of A and column of B, and no cell has been
\* written by more than one worker.
C3_RaceFree ==
    (mat_C # NULL) =>
        \A cell \in CellsOfC :
            /\ Cardinality(writers[cell]) <= 1
            /\ (writers[cell] # {}) =>
                  (mat_C[cell[1]][cell[2]] = DotProduct(cell[1], cell[2]))

\* during the parallel phase of a 2 x 2 product: one cell written, one
\* worker about to write another cell, dispatch still going on
C3_Witness ==
    /\ main_pc = "dispatch"
    /\ mat_C_rows = 2 /\ mat_C_cols = 2 /\ mat_A_cols = 2
    /\ \E cell \in CellsOfC : writers[cell] # {}
    /\ \E w \in Workers : pc[w] = "write"

\* workers between pthread_mutex_lock and pthread_mutex_unlock
InCritical == {w \in Workers : pc[w] \in {"write", "unlock"}}

\* C4: at most one worker is between pthread_mutex_lock and
\* pthread_mutex_unlock on mat_C_lock, and it is the owner of the mutex.
C4_MutualExclusion ==
    /\ Cardinality(InCritical) <= 1
    /\ \A w \in InCritical : mat_C_lock.owner = w

\* one worker holds the mutex while another is blocked in pthread_mutex_lock
C4_Witness ==
    \E w \in Workers, v \in Workers :
        /\ w # v
        /\ pc[w] = "write" /\ mat_C_lock.owner = w
        /\ pc[v] = "lock"

\* C5: C is read by the dispatcher only after every worker has terminated and
\* been joined, and no worker reads a cell of C.
C5_NoReadBeforeJoin ==
    /\ C_readers \subseteq {"main"}
    /\ (main_pc = "print" \/ "main" \in C_readers) =>
          \A w \in 0 .. (threads_num - 1) : pc[w] = "joined"

\* C has been printed after four workers were joined
C5_Witness ==
    /\ "main" \in C_readers
    /\ threads_num = 4
    /\ \A w \in 0 .. 3 : pc[w] = "joined"

\* C6: after a failed pthread_create the rollback loop terminates and the
\* call returns.
C6_RollbackReturns == (main_pc = "rollback") ~> (main_pc = "returned")

\* C7: pthread_cancel is issued only to the indices thread_idx-1 .. 0 of the
\* workers spawned before the failure, each once: whenever the loop is about
\* to call pthread_cancel(threads[cancel_idx]), cancel_idx is below thread_idx,
\* inside threads[], and has no request pending yet.
C7_CancelOnlySpawned ==
    (main_pc = "rollback" /\ cancel_idx >= 0) =>
        /\ cancel_idx < thread_idx
        /\ cancel_idx < threads_num
        /\ cancel_idx \notin cancel_pending

\* C8: after the first failed pthread_create, at index i, pthread_create is
\* never called again and the number of workers ever spawned is exactly i:
\* a failure is the last entry of the log of pthread_create results, and the
\* call is in its rollback (or has ended).
C8_NoSpawnAfterFailure ==
    \A j \in 1 .. Len(create_log) :
        (create_log[j] # 0) =>
            /\ j = Len(create_log)
            /\ Cardinality(Spawned) = j - 1
            /\ main_pc \in {"rollback", "crashed", "returned"}

\* the third pthread_create failed, both earlier workers have a
\* cancellation request pending
C8_Witness ==
    /\ main_pc = "rollback"
    /\ Len(create_log) = 3 /\ create_log[3] # 0
    /\ Spawned = {0, 1}
    /\ cancel_pending = {0, 1}

\* C9: when a setter of setAttr is rejected (set_attr_status is not 0), no
\* worker is spawned.
C9_NoSpawnAfterAttrError ==
    (set_attr_status # 0) => (Spawned = {})

\* C10: every worker is created with the configuration given to setAttr:
\* SCHED_RR, the maximum priority of SCHED_RR, explicit scheduling.
C10_SpawnedWithSetAttr ==
    \A w \in Spawned :
        /\ spawn_attr[w].policy = SCHED_RR
        /\ spawn_attr[w].priority = PRIO_MAX_RR
        /\ spawn_attr[w].inherit = PTHREAD_EXPLICIT_SCHED

\* C13: when the allocation of A, B or C fails no worker is ever spawned, in
\* the current variant and in the earlier one alike: a spawned worker never
\* coexists with a NULL matrix before the release of the matrices.
MatrixIsNull == mat_A = NULL \/ mat_B = NULL \/ mat_C = NULL

C13_NoSpawnWithNullMatrix ==
    (main_pc # "returned" /\ MatrixIsNull) => (Spawned = {})

\* the workers pthread_join has returned for
Joined == {w \in Workers : pc[w] = "joined"}

\* a step that destroys the mutex or the attribute object
DestroyStep ==
    \/ mat_C_lock.state # "destroyed" /\ mat_C_lock'.state = "destroyed"
    \/ attr.init /\ ~attr'.init

\* C14: on the success path the workers are joined in spawn order 0..N-1 (in
\* the join loop the joined workers are exactly those below thread_idx), and
\* the mutex and the attribute object are destroyed only in a state where
\* every worker has been joined.
C14_JoinOrderThenDestroy ==
    /\ []((main_pc = "join") => (Joined = 0 .. (thread_idx - 1)))
    /\ [][DestroyStep => (Joined = 0 .. (threads_num - 1))]_vars

C14_Witness ==
    /\ mat_C_lock.state = "destroyed" /\ ~attr.init
    /\ threads_num = MaxThreads
    /\ Joined = 0 .. (threads_num - 1)

\* printMatrix has been reached
PrinterInvoked == main_pc = "print" \/ "main" \in C_readers

\* every one of the rows_C * cols_C pthread_create calls was made and succeeded
AllSpawned ==
    /\ Len(create_log) = threads_num
    /\ \A i \in 1 .. Len(create_log) : create_log[i] = 0

\* C15: printMatrix is reached only after a successful multiplication: all
\* rows_C * cols_C workers were spawned and joined, and no step of the set-up
\* failed (in particular no attribute setter reported an error).
C15_PrintOnlyAfterSuccess ==
    PrinterInvoked =>
        /\ AllSpawned
        /\ Joined = 0 .. (threads_num - 1)
        /\ set_attr_status = 0

\* printing follows the spawning and joining of every worker (holds)
PrintOnlyAfterJoin ==
    PrinterInvoked => (AllSpawned /\ Joined = 0 .. (threads_num - 1))

\* C16: for A = [[1,2],[3,4]] and B = [[5,6],[7,8]] four workers are spawned
\* and, whatever their interleaving, C is [[19,22],[43,50]] once they are
\* joined.
C16_SquareExample ==
    (vals_A = Square_A /\ vals_B = Square_B /\ AllJoined) =>
        /\ mat_C = Matrix(<< <<19, 22>>, <<43, 50>> >>)
        /\ Spawned = 0 .. 3

C16_Witness ==
    /\ vals_A = Square_A /\ vals_B = Square_B
    /\ main_pc = "print"
    /\ mat_C = Matrix(<< <<19, 22>>, <<43, 50>> >>)

\* C17: for A = [[2,0,1]] and B = [[1],[4],[2]] at most one worker is ever
\* spawned, and once it is joined exactly one was spawned and C is [[4]].
C17_VectorExample ==
    (vals_A = RowVec_A /\ vals_B = ColVec_B) =>
        /\ Spawned \subseteq {0}
        /\ Len(create_log) <= 1
        /\ AllJoined => (Spawned = {0} /\ mat_C = Matrix(<< <<4>> >>))

C17_Witness ==
    /\ vals_A = RowVec_A /\ vals_B = ColVec_B
    /\ main_pc = "print"
    /\ Spawned = {0}
    /\ mat_C = Matrix(<< <<4>> >>)

\* C18: on the success path (every worker spawned, the dispatcher in its join
\* loop) the call terminates when every thread is scheduled fairly: each
\* worker gets the mutex, returns and is joined, and the dispatcher reaches
\* its end with the mutex free.
C18_SuccessTerminates ==
    (main_pc = "join") ~>
        /\ main_pc = "returned"
        /\ Joined = 0 .. (threads_num - 1)
        /\ mat_C_lock.owner = NoThread

C18_Witness ==
    /\ main_pc = "returned"
    /\ threads_num = MaxThreads
    /\ Joined = 0 .. (threads_num - 1)
    /\ mat_C_lock.owner = NoThread

\* the order of a worker's steps, as pairs of consecutive positions
StepOrder ==
    {<<"unspawned", "setcancel">>, <<"setcancel", "compute">>,
     <<"compute", "lock">>, <<"lock", "write">>, <<"write", "unlock">>,
     <<"unlock", "return">>, <<"return", "terminated">>,
     <<"terminated", "joined">>}

\* worker w has left the routine
Terminated(w) == pc[w] \in {"terminated", "joined"}

\* what holds of worker w in every state
WorkerStateOK(w) ==
    /\ (mat_C_lock.owner = w) <=> (pc[w] \in {"write", "unlock"})
    /\ mutex_calls[w].lock = (IF pc[w] \in {"write", "unlock", "return"} \/ Terminated(w)
                              THEN 1 ELSE 0)
    /\ mutex_calls[w].unlock = (IF pc[w] = "return" \/ Terminated(w) THEN 1 ELSE 0)
    /\ (pc[w] \in {"unspawned", "setcancel", "compute"}) =>
           (calculated_value[w] = Indeterminate)

\* what holds of every step of worker w
WorkerStepOK(w) ==
    /\ (pc'[w] # pc[w]) => (<<pc[w], pc'[w]>> \in StepOrder)
    /\ (pc[w] = "compute" /\ pc'[w] = "lock") =>
           /\ calculated_value'[w] =
                  DotProduct(matrix_mult_data_arr[w].target_row_A,
                             matrix_mult_data_arr[w].target_col_B)
           /\ mat_C' = mat_C
    /\ (pc[w] = "write" /\ pc'[w] = "unlock") =>
           mat_C' = [mat_C EXCEPT ![matrix_mult_data_arr[w].target_row_A]
                                   [matrix_mult_data_arr[w].target_col_B] =
                                       calculated_value[w]]

\* C19: each worker goes through its steps in the fixed order (cancel
\* set-up, the whole dot product without the mutex, lock, the single
\* assignment to its cell, unlock, return); it has locked exactly once and
\* unlocked exactly once when it returns, holds the mutex only around the
\* assignment, and the mutex is free whenever all spawned workers have
\* terminated.
C19_WorkerProtocol ==
    /\ [](\A w \in Workers : WorkerStateOK(w))
    /\ []((\A w \in Spawned : Terminated(w)) => (mat_C_lock.owner = NoThread))
    /\ [][\A w \in Workers : WorkerStepOK(w)]_vars

C19_Witness ==
    /\ threads_num = MaxThreads
    /\ Spawned = 0 .. (threads_num - 1)
    /\ \A w \in Spawned : Terminated(w) /\ mutex_calls[w] = [lock |-> 1, unlock |-> 1]
    /\ mat_C_lock = [state |-> "init", owner |-> NoThread]

\* the matrix the engine with the guard ends with (C1): the product of the
\* two inputs
FinalC ==
    [r \in 0 .. (mat_C_rows - 1) |-> [c \in 0 .. (mat_C_cols - 1) |-> DotProduct(r, c)]]

\* C20: without the lock and unlock of mat_C_lock the engine ends, for every
\* input and interleaving, with the same matrix C as with them, and no cell
\* of C ever has two writers.
C20_SameResultWithoutGuard ==
    /\ \A cell \in DOMAIN writers : Cardinality(writers[cell]) <= 1
    /\ AllJoined => (mat_C = FinalC)

\* two workers are past the place of the lock at once, each having written
C20_Witness ==
    \E w \in Workers, v \in Workers :
        /\ w # v
        /\ pc[w] = "unlock" /\ pc[v] = "unlock"
        /\ mutex_calls[w].lock = 0 /\ mutex_calls[v].lock = 0

\* the engine with the guard ends with FinalC as well
GuardedResult == AllJoined => (mat_C = FinalC)

\* the cell of C worker w was given
OwnCell(w) ==
    <<matrix_mult_data_arr[w].target_row_A, matrix_mult_data_arr[w].target_col_B>>

\* a step taken by worker w inside matrixMultThreadRoutine
WorkerStep(w) ==
    /\ pc[w] \in {"setcancel", "compute", "lock", "write", "unlock", "return"}
    /\ pc'[w] # pc[w]

\* A and B keep their cells from creation to deallocation
InputsKept ==
    /\ (mat_A # NULL /\ mat_A' # NULL) => (mat_A' = mat_A)
    /\ (mat_B # NULL /\ mat_B' # NULL) => (mat_B' = mat_B)

\* C21: no step changes a cell of A or B between their creation and their
\* deallocation, and a step of worker w leaves A and B as they are and
\* changes no cell of C other than the cell of w.
C21_InputsNeverMutated ==
    [][/\ InputsKept
       /\ \A w \in Workers :
             WorkerStep(w) =>
                /\ mat_A' = mat_A /\ mat_B' = mat_B
                /\ \A cell \in CellsOfC \ {OwnCell(w)} :
                      mat_C'[cell[1]][cell[2]] = mat_C[cell[1]][cell[2]]]_vars

C21_Witness ==
    /\ main_pc = "print"
    /\ threads_num = MaxThreads
    /\ mat_A = vals_A /\ mat_B = vals_B
    /\ \A cell \in CellsOfC : Cardinality(writers[cell]) = 1

\* C22: after a failed pthread_create the dispatcher cancels and returns
\* without joining anybody: the rollback leads to the return of the call, no
\* worker having been joined.
C22_ReturnsWithoutJoin ==
    (main_pc = "rollback") ~> (main_pc = "returned" /\ Joined = {})

\* no pthread_join is performed once a pthread_create has failed (holds)
NoJoinAfterSpawnFailure ==
    (main_pc \in {"rollback", "crashed"}) => (Joined = {})

\* worker w has a step it can take unless it waits for the mutex
NotBlocked(w) ==
    \/ pc[w] \in {"setcancel", "compute", "write", "unlock", "return"}
    \/ pc[w] = "lock" /\ mat_C_lock.owner = NoThread

\* C23: cancellation is best effort.  The routine has no cancellation point:
\* a worker with a cancellation request pending goes on exactly as without
\* it (its next step stays enabled while the process runs), and its write
\* step, taken after the request, still assigns its cell of C.
C23_CancelIsBestEffort ==
    /\ [](\A w \in cancel_pending :
             (main_pc # "crashed" /\ NotBlocked(w)) => ENABLED Worker(w))
    /\ [][\A w \in cancel_pending :
             (pc[w] = "write" /\ pc'[w] = "unlock") =>
                /\ mat_C' # mat_C
                /\ mat_C'[OwnCell(w)[1]][OwnCell(w)[2]] = calculated_value[w]]_vars

\* the request to worker w has been issued, w has not yet written and is
\* about to assign its cell
C23_Witness ==
    \E w \in cancel_pending :
        /\ main_pc = "rollback"
        /\ pc[w] = "write"
        /\ mat_C[OwnCell(w)[1]][OwnCell(w)[2]] = Indeterminate
        /\ ENABLED WriteCell(w)

\* some row of the matrix handed to deallocateMatrix was not obtained
RowFailed == \E r \in DOMAIN dm_mat : dm_mat[r] \in {"null", "uninit"}

\* C24: deallocateMatrix is safe on a matrix whose allocation failed part
\* way: it performs no invalid memory operation (no read through a missing
\* row table, no free of a row pointer never assigned, no second free) and,
\* when it is done, every block that was obtained has been freed once.
C24_DeallocSafeOnPartial ==
    RowFailed =>
        /\ dm_faults = {}
        /\ dm_pc # "crashed"
        /\ (dm_pc = "done") =>
               /\ dm_table # "block"
               /\ \A r \in DOMAIN dm_mat : dm_mat[r] # "block"

\* the cells populateRandomValuesMatrix has assigned so far
Populated ==
    {cell \in (0 .. (pop_rows - 1)) \X (0 .. (pop_cols - 1)) :
        \/ cell[1] < pop_row_idx
        \/ cell[1] = pop_row_idx /\ cell[2] < pop_col_idx}

\* C25: for every min_val <= max_val and every value of rand(),
\* getDelimitedRandomInteger is a defined computation whose result lies in
\* min_val .. max_val, so every cell populateRandomValuesMatrix has assigned
\* lies in that range and after it all rows * cols cells do.
C25_PopulatedInRange ==
    /\ pop_faults = {}
    /\ pop_pc # "crashed"
    /\ \A cell \in Populated :
          pop_mat[cell[1]][cell[2]] \in pop_min .. pop_max
    /\ (pop_pc = "done") => (Cardinality(Populated) = pop_rows * pop_cols)

\* the same for the ranges whose size fits an int (holds)
PopulatedInRangeIfFits ==
    (~RangeOverflows(pop_min, pop_max)) => C25_PopulatedInRange

\* matrix m has exactly r rows of c cells each
HasShape(m, r, c) ==
    /\ DOMAIN m = 0 .. (r - 1)
    /\ \A i \in DOMAIN m : DOMAIN m[i] = 0 .. (c - 1)

\* C26: in every run the dimensions, once drawn, lie in 1..5 and satisfy the
\* dimension invariant (the matrices created have the shapes rows_A x
\* cols_A, cols_A x cols_B and rows_A x cols_B), and threads_num, once
\* computed, is the number of cells of C and lies in 1..25.
C26_DimensionInvariant ==
    /\ (main_pc # "draw_dims") =>
          /\ {mat_A_rows, mat_A_cols, mat_B_rows, mat_B_cols,
               mat_C_rows, mat_C_cols} \subseteq 1 .. 5
          /\ mat_B_rows = mat_A_cols
          /\ mat_C_rows = mat_A_rows /\ mat_C_cols = mat_B_cols
    /\ (mat_A # NULL) =>
          \E inner \in 1 .. 5 :
             /\ HasShape(mat_A, mat_A_rows, inner)
             /\ HasShape(mat_B, inner, mat_B_cols)
             /\ HasShape(mat_C, mat_A_rows, mat_B_cols)
    /\ (main_pc = "counted") =>
          /\ threads_num \in 1 .. 25
          /\ threads_num = Cardinality(CellsOfC)

C26_Witness ==
    /\ main_pc = "counted"
    /\ mat_A_rows = 5 /\ mat_A_cols = 1 /\ mat_B_cols = 5
    /\ threads_num = 25
    /\ HasShape(mat_C, 5, 5)

\* the indices whose thread has been created by threadsWithAttributes
TwaSpawned == {i \in ThreadIdx : twa_state[i] # "unspawned"}

\* C27: in threadsWithAttributes the thread of spawn index i is created with
\* priority i + 1, so priorities ascend strictly with the spawn index, while
\* the policy (SCHED_RR) and the inheritance (explicit) are the same for all
C27_AscendingPriorities ==
    /\ \A i \in TwaSpawned :
          /\ twa_spawn_attr[i].init
          /\ twa_spawn_attr[i].priority = i + 1
          /\ sched_priority_param[i] = i + 1
          /\ twa_spawn_attr[i].policy = SCHED_RR
          /\ twa_spawn_attr[i].inherit = PTHREAD_EXPLICIT_SCHED
    /\ \A i \in TwaSpawned, j \in TwaSpawned :
          (i < j) => (twa_spawn_attr[i].priority < twa_spawn_attr[j].priority)

C27_Witness == TwaSpawned = ThreadIdx

\* the attribute objects pthread_attr_destroy has been called on
TwaDestroyed == {i \in ThreadIdx : twa_pc \in {"destroy_attrs", "join", "returned"}
                                   /\ twa_spawn_attr[i].init
                                   /\ ~thread_attrs[i].init}

\* C28: in threadsWithAttributes an attribute object is destroyed only after
\* every spawned thread has been joined
C28_DestroyAfterJoin ==
    (TwaDestroyed # {}) => (\A i \in TwaSpawned : twa_state[i] = "joined")

\* the last pthread_create of threadsWithAttributes failed
TwaSpawnFailed ==
    /\ twa_create_log # <<>>
    /\ checkThreadCreationStatus(twa_create_log[Len(twa_create_log)]) # 0

\* the handles of the threads i - 1 down to 0
Descending(i) == [k \in 1 .. i |-> twa_threads[i - k]]

\* C29: when pthread_create fails at index i, the cancellation loop calls
\* pthread_cancel on exactly the threads i - 1 down to 0, each once, ends (for
\* i = 0 without a call), and the function returns with no further thread
\* created and none joined
C29_RollbackCancelsPriorOnce ==
    /\ [](TwaSpawnFailed =>
            LET i == twa_thread_idx IN
            /\ i = Len(twa_create_log) - 1
            /\ twa_pc \in {"rollback", "returned"}
            /\ TwaSpawned = 0 .. (i - 1)
            /\ \A w \in ThreadIdx : twa_state[w] # "joined"
            /\ Len(twa_cancel_log) <= i
            /\ twa_cancel_log = SubSeq(Descending(i), 1, Len(twa_cancel_log))
            /\ (twa_pc = "returned") => (twa_cancel_log = Descending(i)))
    /\ (TwaSpawnFailed ~> (twa_pc = "returned"))

C29_Witness ==
    /\ TwaSpawnFailed
    /\ twa_pc = "returned"
    /\ twa_thread_idx = NUMBER_OF_THREADS - 1
    /\ Len(twa_cancel_log) = NUMBER_OF_THREADS - 1

\* the same with the failure at index 0
RollbackAtZero ==
    /\ TwaSpawnFailed
    /\ twa_pc = "returned"
    /\ twa_thread_idx = 0
    /\ twa_cancel_log = <<>>

\* the resources of exampleMatrixMultiplication that this step releases
ReleasedByStep ==
    {res \in {"mat_A", "mat_B", "mat_C", "threads", "matrix_mult_data_arr",
              "mat_C_lock"} :
        \/ res = "mat_A" /\ mat_A # NULL /\ mat_A' = NULL
        \/ res = "mat_B" /\ mat_B # NULL /\ mat_B' = NULL
        \/ res = "mat_C" /\ mat_C # NULL /\ mat_C' = NULL
        \/ res = "threads" /\ threads # NULL /\ threads' = NULL
        \/ res = "matrix_mult_data_arr" /\ matrix_mult_data_arr # NULL
                                        /\ matrix_mult_data_arr' = NULL
        \/ res = "mat_C_lock" /\ mat_C_lock.state = "init"
                              /\ mat_C_lock'.state # "init"}

\* C30: a failure return of exampleMatrixMultiplication releases nothing: the
\* matrices, the handle array, the work item array and the mutex acquired so
\* far are still allocated when the call returns (only the final release at
\* the end of a complete run frees them)
C30_FailureReturnsLeak ==
    [][/\ (ReleasedByStep # {}) => (main_pc = "cleanup")
       /\ (main_pc # "cleanup" /\ main_pc' = "returned") => (ReleasedByStep = {})]_vars

\* returned because the work item array could not be allocated, with the three
\* matrices and the handle array still held
C30_Witness ==
    /\ main_pc = "returned"
    /\ mat_A # NULL /\ mat_B # NULL /\ mat_C # NULL
    /\ threads # NULL
    /\ matrix_mult_data_arr = NULL

\* the call returned from its last statement, after the release at its end
SuccessReturn == main_pc = "returned" /\ mat_C_lock.state = "destroyed"

\* every resource the call acquired is held
AllHeld ==
    /\ mat_A # NULL /\ mat_B # NULL /\ mat_C # NULL
    /\ threads # NULL /\ matrix_mult_data_arr # NULL
    /\ mat_C_lock.state = "init" /\ attr.init

\* every resource the call acquired has been released
AllReleased ==
    /\ mat_A = NULL /\ mat_B = NULL /\ mat_C = NULL
    /\ threads = NULL /\ matrix_mult_data_arr = NULL
    /\ mat_C_lock.state = "destroyed" /\ ~attr.init

\* C31: on the success path A, B, C, the handle array, the work item array,
\* the mutex and the attribute object are each released exactly once, by the
\* one release after the matrices have been printed, and nothing is used
\* afterwards: no worker and no statement of the call has a step left
C31_ReleasedOnceAfterPrint ==
    /\ [][(ReleasedByStep # {} \/ DestroyStep) =>
             /\ main_pc = "cleanup" /\ "main" \in C_readers
             /\ AllHeld /\ AllReleased']_vars
    /\ [](SuccessReturn =>
             /\ AllReleased
             /\ ~ENABLED Dispatcher
             /\ \A w \in Workers : ~ENABLED Worker(w))

C31_Witness ==
    /\ SuccessReturn /\ AllReleased
    /\ "main" \in C_readers
    /\ threads_num = MaxThreads

\* a step in which the setters of setAttr are applied to attr
SetterStep == main_pc = "set_attr" /\ main_pc' # "set_attr"

\* a step in which pthread_attr_init is applied to attr
AttrInitStep == main_pc = "alloc_data" /\ main_pc' = "dispatch"

\* C32: attr follows init, configure, use, destroy: the setters of setAttr
\* are applied to an attribute object that pthread_attr_init has initialised,
\* and pthread_attr_init is not applied after them (the object the first
\* pthread_create consumes still holds what the setters stored)
C32_InitConfigureUse ==
    [][/\ SetterStep => attr.init
       /\ AttrInitStep => (attr = attrUninit)]_vars

\* worker w is inside matrixMultThreadRoutine
InRoutine(w) == pc[w] \in {"setcancel", "compute", "lock", "write", "unlock", "return"}

\* the mutex and the common data record (locals of the call) are gone
OutOfScope == main_pc = "returned" \/ mat_C_lock.state = "destroyed"

\* C33: once exampleMatrixMultiplication has returned or the mutex has been
\* destroyed, no worker is inside its routine and none has a step left (a
\* lock, a read of the common data or of its work item, an access to A, B or
\* C): every spawned worker has terminated before
C33_NoWorkerOutlivesCall ==
    OutOfScope =>
        \A w \in Workers :
            /\ ~InRoutine(w)
            /\ pc[w] # "unspawned" => Terminated(w)
            /\ ~ENABLED Worker(w)

C33_Witness ==
    /\ OutOfScope
    /\ threads_num = 2
    /\ \A w \in 0 .. 1 : Terminated(w) /\ writers[<<targetRow(w, mat_C_cols), targetCol(w, mat_C_cols)>>] = {w}

\* the counter value the run would print if no increment were lost
ExpectedCounter == MutexThreads * NUMBER_OF_INCREMENTS

\* createThreadsAndRun printed the counter and returned 0
MxPrinted == mx_pc = "returned" /\ mx_ret = 0

\* C34: with use_mutex set, the counter printed after all joins is the number
\* of threads times NUMBER_OF_INCREMENTS whatever the interleaving, and while
\* the mutex exists only the thread that holds it modifies the counter
C34_MutexCounterExact ==
    /\ []((use_mutex # 0 /\ MxPrinted) => (mx_printed = ExpectedCounter))
    /\ [][(use_mutex # 0 /\ mx_lock.state = "init" /\ counter' # counter) =>
             \E t \in MxThreads :
                /\ mx_lock.owner = t
                /\ mx_tpc[t] = "store" /\ mx_tpc'[t] = "loop"]_vars

C34_Witness ==
    /\ use_mutex # 0 /\ MxPrinted
    /\ mx_printed = ExpectedCounter
    /\ \A t \in MxThreads : mx_tpc[t] = "joined"

RECURSIVE SumUpTo(_, _)
SumUpTo(f, n) == IF n < 0 THEN 0 ELSE f[n] + SumUpTo(f, n - 1)

\* the increments the threads have completed so far
Completed == SumUpTo(mx_k, MutexThreads - 1)

\* C35: with use_mutex clear the fetch, increment, store of the shared counter
\* is not atomic: the counter never exceeds the number of increments made,
\* every store writes the value fetched earlier plus one whatever the counter
\* holds by then, and some interleaving loses an update, so that the printed
\* counter is below the number of threads times NUMBER_OF_INCREMENTS
C35_UnguardedCounterRaces ==
    /\ []((use_mutex = 0 /\ mx_pc # "init") =>
             /\ counter <= Completed
             /\ MxPrinted => (mx_printed \in 1 .. ExpectedCounter))
    /\ [][(use_mutex = 0 /\ counter' # counter) =>
             \E t \in MxThreads :
                /\ mx_tpc[t] = "store" /\ mx_tpc'[t] = "loop"
                /\ counter' = mx_reg[t] + 1]_vars

\* a run without the mutex that printed less than every increment made
C35_Witness ==
    /\ use_mutex = 0 /\ MxPrinted
    /\ \A t \in MxThreads : mx_k[t] = NUMBER_OF_INCREMENTS
    /\ mx_printed < ExpectedCounter

\* the threads that have reached pthread_barrier_wait
AtBarrier == {t \in BarThreads : bar_tpc[t] \notin {"unspawned", "count", "arrive"}}

\* the threads that have executed code after pthread_barrier_wait
PastBarrier == {t \in BarThreads : bar_tpc[t] \in {"after", "terminated", "joined"}}

\* C36: no thread executes the code after pthread_barrier_wait before all
\* three threads have reached the barrier, and once all three threads have
\* been created every thread passes the barrier and is joined
C36_BarrierHoldsThenOpens ==
    /\ []((PastBarrier # {}) => (AtBarrier = BarThreads))
    /\ ((bar_pc = "join") ~>
           (bar_pc = "returned" /\ \A t \in BarThreads : bar_tpc[t] = "joined"))

C36_Witness ==
    /\ bar_pc = "returned"
    /\ \A t \in BarThreads : bar_tpc[t] = "joined" /\ dummy_cnt[t] = counters[t]

\* a step in which the producer calls pthread_cond_signal
SignalStep == prod_pc = "signal" /\ prod_pc' = "unlock"

\* C37: whenever the producer calls pthread_cond_signal the consumer is
\* blocked in pthread_cond_wait, so no signal is lost, and once both threads
\* have been created the consumer wakes, consumes the BUFFER_SIZE items and
\* both threads terminate
C37_SignalNeverLost ==
    /\ [][SignalStep => (cons_pc = "waiting" /\ Consumer \in full_cond.waiters)]_vars
    /\ [](lost_signals = 0)
    /\ ((prod_pc = "setcancel") ~>
           (cons_pc \in {"terminated", "joined"} /\ prod_pc \in {"terminated", "joined"}))

\* the run the lesson intends: the signal found the consumer waiting and both
\* threads were joined
SignalDelivered ==
    /\ cv_pc = "returned" /\ lost_signals = 0
    /\ cons_pc = "joined" /\ prod_pc = "joined"

TmDone(t) == tm_tpc[t] \in {"terminated", "joined"}

\* the mutexes thread t holds
TmHeld(t) == {m \in TmMutexes : tm_mutex[m].owner = t}

\* C38: the timed mutex lesson never deadlocks. A thread that is not done can
\* always take a step, and every created thread terminates; the step after a
\* failed second timed lock releases the mutex the thread holds; a thread that
\* is done holds no mutex, so after both are done neither mutex is held.
C38_TimedLocksNeverDeadlock ==
    /\ [](\A t \in TmThreads :
            /\ (tm_tpc[t] # "unspawned" /\ ~TmDone(t)) => ENABLED generalThreadRoutine(t)
            /\ TmDone(t) => (TmHeld(t) = {})
            /\ (tm_tpc[t] = "give_up") =>
                  /\ tm_ret[t][2] # 0 /\ TmHeld(t) = {m_1(t)}
                  /\ ENABLED TM_GiveUp(t))
    /\ []((\A t \in TmThreads : TmDone(t)) =>
             \A m \in TmMutexes : tm_mutex[m].owner = Nobody)
    /\ \A t \in TmThreads : (tm_tpc[t] # "unspawned") ~> TmDone(t)
    /\ (tm_pc = "join_A") ~> (tm_pc = "returned" /\ \A t \in TmThreads : tm_tpc[t] = "joined")

\* both threads terminated after the crossed locking: A's second timed lock
\* failed while B held mutex 2
C38_Witness ==
    /\ \A t \in TmThreads : TmDone(t)
    /\ tm_ret["A"] = <<0, ETIMEDOUT>>
    /\ tm_ret["B"][1] = 0
    /\ \A m \in TmMutexes : tm_mutex[m].owner = Nobody

TlDone(t) == tl_tpc[t] \in {"terminated", "joined"}

\* the threads between a successful trylock and the unlock
TlHolders == {t \in TlThreads : tl_tpc[t] \in {"locked", "work", "unlock"}}

\* C40: in the trylock lesson no thread waits for the mutex (a thread that is
\* not done can always take a step); a thread whose trylock failed never holds
\* the mutex and its next step is the return, which leaves the mutex alone;
\* the mutex is released only by the unlock of the thread that acquired it;
\* at most one thread holds it; every created thread terminates, and when
\* the threads are done the mutex is free.
C40_TryLockNeverBlocks ==
    /\ [](\A t \in TlThreads :
            /\ (tl_tpc[t] # "unspawned" /\ ~TlDone(t)) => ENABLED threadsWithTryLockRoutine(t)
            /\ (tl_ret[t] = EBUSY) => (tl_mutex.owner # t /\ t \notin TlHolders)
            /\ (t \in TlHolders) => (tl_mutex.owner = t /\ tl_ret[t] = 0))
    /\ [](Cardinality(TlHolders) <= 1)
    /\ [][\A t \in TlThreads :
            /\ (tl_tpc[t] \in {"busy", "busy_return"} /\ tl_tpc'[t] # tl_tpc[t]) =>
                  (tl_tpc'[t] \in {"busy_return", "terminated"} /\ tl_mutex' = tl_mutex)
            /\ (tl_mutex.owner = t /\ tl_mutex'.owner # t) =>
                  (tl_ret[t] = 0 /\ tl_tpc[t] = "unlock" /\ tl_tpc'[t] = "return")]_vars
    /\ []((\A t \in TlThreads : TlDone(t)) => (tl_mutex.owner = NoThread))
    /\ \A t \in TlThreads : (tl_tpc[t] # "unspawned") ~> TlDone(t)
    /\ (tl_pc = "join_0") ~> (tl_pc = "returned" /\ \A t \in TlThreads : tl_tpc[t] = "joined")

\* both threads are done: t_0 acquired the mutex and released it, t_1 found
\* it busy and returned
C40_Witness ==
    /\ \A t \in TlThreads : TlDone(t)
    /\ tl_ret[0] = 0 /\ tl_ret[1] = EBUSY
    /\ tl_mutex.owner = NoThread

\* the threads between sem_wait and sem_post
SemInside == {t \in SemThreads : sem_tpc[t] \in {"sleep", "print", "sem_post"}}

SemDone(t) == sem_tpc[t] \in {"terminated", "joined"}

SlotsBounded ==
    /\ Cardinality(SemInside) <= MAX_COUNTING_SEM_SLOTS
    /\ counting_sem.value \in 0 .. MAX_COUNTING_SEM_SLOTS

\* C39 as stated: in every state at most MAX_COUNTING_SEM_SLOTS threads are
\* between sem_wait and sem_post and the value is within 0..3, and every
\* thread of the lesson eventually passes the semaphore and terminates.
C39_AllThreadsPass ==
    /\ []SlotsBounded
    /\ \A t \in SemThreads : (sem_tpc[t] # "unspawned") ~> SemDone(t)

\* C39, amended: the bound on the threads inside and on the value holds as
\* long as the function has not left threads behind; when all five threads
\* were created, all five pass the semaphore, terminate and are joined, and
\* the value is back at MAX_COUNTING_SEM_SLOTS.
C39_SlotsBoundedAllPassWhenCreated ==
    /\ []((sem_pc # "returned" \/ \A t \in SemThreads : sem_tpc[t] = "joined") => SlotsBounded)
    /\ []((sem_pc \in {"join", "destroy"}) =>
             counting_sem.value + Cardinality(SemInside) = MAX_COUNTING_SEM_SLOTS)
    /\ ((sem_pc = "join") ~>
           (/\ sem_pc = "returned"
            /\ \A t \in SemThreads : sem_tpc[t] = "joined"
            /\ counting_sem.value = MAX_COUNTING_SEM_SLOTS))

\* the semaphore is exhausted: three threads inside, the other two waiting
C39_Witness ==
    /\ sem_pc = "join"
    /\ Cardinality(SemInside) = MAX_COUNTING_SEM_SLOTS
    /\ counting_sem.value = 0
    /\ \A t \in SemThreads \ SemInside : sem_tpc[t] = "sem_wait"

\* every runnable thread is eventually scheduled
FairSpec ==
    /\ Init /\ [][Next]_vars
    /\ WF_vars(Dispatcher)
    /\ \A w \in Workers : WF_vars(Worker(w))

====
